---------------------------- MODULE Spec2Model ----------------------------
(***************************************************************************)
(* Model of the polyglot migration engine (src/migracion_poliglota.py):    *)
(* MigradorPoliglota reads rows from PostgreSQL and upserts them into      *)
(* Neo4j as labelled nodes and directed relationships, driven by the       *)
(* declarative mapping MAPEO_MIGRACION.                                    *)
(*                                                                         *)
(* The graph store is modelled by what its statements do: MERGE on a node  *)
(* pattern matches every node with the label and the identity value and    *)
(* creates one when none matches; SET n.p = NULL removes the property;     *)
(* MATCH with no match yields no row, so the MERGE after it is a no-op;    *)
(* a managed write transaction (execute_write) commits all of its          *)
(* statements or none.                                                     *)
(***************************************************************************)
EXTENDS Integers, Sequences, FiniteSets, TLC

\* ------------------------------------------------------------------ bounds
MaxFilas == 3       \* rows in the whole source database
MaxCorridas == 2    \* runs of the program against the same source
MaxFilasMin == 2    \* rows in the source of the installations checked with less data
MaxFilasVacio == 1  \* rows in the source of the installation whose mapping file is empty

\* ------------------------------------------------------------------ values
\* SQL NULL = Python None = an absent Neo4j property.
NULL == 0
\* Identity values of the source rows.
Ids == {1, 2}
\* Values of a non-identity column.
Valores == {NULL, 1}
Propiedades == {"id_sql", "nombre", "email", "texto", "extra"}
SinPropiedades == [p \in Propiedades |-> NULL]

\* ---------------------------------------------------------------- sequences
RECURSIVE SecuenciasDe(_, _)
\* All sequences over S of length exactly n.
SecuenciasDe(S, n) ==
    IF n = 0 THEN {<<>>}
    ELSE {Append(s, x) : s \in SecuenciasDe(S, n - 1), x \in S}

SecuenciasHasta(S, n) == UNION {SecuenciasDe(S, k) : k \in 0..n}

Rango(s) == {s[k] : k \in DOMAIN s}

\* The first index of s whose element is in S, 0 when there is none
\* (Python: next(e for e in s if ...) raises StopIteration on 0).
PrimerIndice(s, S) ==
    IF \E k \in DOMAIN s : s[k] \in S
    THEN CHOOSE k \in DOMAIN s : s[k] \in S /\ \A h \in 1..(k - 1) : s[h] \notin S
    ELSE 0

\* ------------------------------------------------------------------ mapping
\* mapeo_campos is an ordered dict: a sequence of <<campo_sql, campo_neo4j>>.
Entidad(nombre, etiqueta, consulta, campos) ==
    [nombre |-> nombre, etiqueta_neo4j |-> etiqueta,
     consulta_sql |-> consulta, mapeo_campos |-> campos]

Relacion(nombre, tipo, consulta, origen, destino) ==
    [nombre |-> nombre, tipo_relacion |-> tipo, consulta_sql |-> consulta,
     nodo_origen |-> origen, nodo_destino |-> destino]

Opciones(limpiar, indices) ==
    [limpiar_neo4j_antes |-> limpiar, crear_indices |-> indices]

EntPersona ==
    Entidad("Usuarios", "Persona", "usuarios",
            << <<"id", "id_sql">>, <<"nombre", "nombre">> >>)
\* An entity mapped by its identity column alone.
EntPost ==
    Entidad("Publicaciones", "Post", "publicaciones", << <<"id", "id_sql">> >>)
\* A second entity writing label Persona, keyed by nombre.
EntEmpleado ==
    Entidad("Empleados", "Persona", "empleados",
            << <<"nombre", "nombre">>, <<"id", "id_sql">> >>)
RelAmigo == Relacion("Amistades", "AMIGO_DE", "amistades", "Persona", "Persona")
RelPublico == Relacion("Autorias", "PUBLICO", "autorias", "Persona", "Post")
\* An entity whose mapeo_campos is {}.
EntVacia == Entidad("Etiquetas", "Etiqueta", "etiquetas", <<>>)
\* A relationship whose nodo_destino is the label of no declared entity.
RelComenta ==
    Relacion("Comentarios", "COMENTA", "comentarios", "Persona", "Comentario")

\* The mapping files the runs are checked with.
Mapeo(entidades, relaciones, opciones) ==
    [entidades |-> entidades, relaciones |-> relaciones, opciones |-> opciones]

MapeoAmigos(limpiar) ==
    Mapeo(<<EntPersona>>, <<RelAmigo>>, Opciones(limpiar, TRUE))
MapeoRed(limpiar) ==
    Mapeo(<<EntPersona, EntPost>>, <<RelAmigo, RelPublico>>, Opciones(limpiar, FALSE))
MapeoCompartido ==
    Mapeo(<<EntPersona, EntEmpleado>>, <<RelAmigo>>, Opciones(FALSE, FALSE))

\* MAPEO_MIGRACION when mapeo_migracion.json is absent (None), and when the
\* file holds an empty JSON object.
Ninguno == [valor |-> "None"]
MapeoVacio == [valor |-> "{}"]

\* if MAPEO_MIGRACION: None and an empty dict are false.
Verdadero(m) == m \notin {Ninguno, MapeoVacio}

\* A mapping whose relationship names a label no entity declares.
MapeoSinResolver ==
    Mapeo(<<EntPersona>>, <<RelComenta>>, Opciones(FALSE, FALSE))
\* A mapping with an entity without fields, declared after one with fields.
MapeoSinCampos ==
    Mapeo(<<EntPersona, EntVacia>>, <<>>, Opciones(FALSE, TRUE))

\* No two entities write the same label.
EtiquetasDistintas(m) ==
    \A a, b \in DOMAIN m.entidades :
        m.entidades[a].etiqueta_neo4j = m.entidades[b].etiqueta_neo4j => a = b

\* ------------------------------------------------------------------- source
\* The tables the fixed queries of ejecutar_migracion_manual read: usuarios
\* (id_usuario, nombre, email), publicaciones (id_publicacion,
\* texto_contenido, autor_id) and the accepted rows of amistades.
ConsultasManuales ==
    <<"manual_usuarios", "manual_publicaciones", "manual_amistades">>

\* The queries of a mapping, in the order the run executes them.
ConsultasDe(m) ==
    IF Verdadero(m)
    THEN [k \in 1..(Len(m.entidades) + Len(m.relaciones)) |->
            IF k <= Len(m.entidades) THEN m.entidades[k].consulta_sql
            ELSE m.relaciones[k - Len(m.entidades)].consulta_sql]
    ELSE ConsultasManuales

ConsultasRelacion == {"amistades", "autorias", "comentarios"}

\* The rows a query can return: a relationship query two identities, an
\* entity query the identity and, but for publicaciones, one more column.
FilasDe(consulta) ==
    IF consulta \in ConsultasRelacion \cup {"manual_amistades"} THEN Ids \X Ids
    ELSE IF consulta = "manual_usuarios" THEN Ids \X Valores \X {1}
    ELSE IF consulta = "manual_publicaciones" THEN Ids \X {1} \X Ids
    ELSE IF consulta = "publicaciones" THEN {<<v>> : v \in Ids \cup {NULL}}
    ELSE (Ids \cup {NULL}) \X Valores

RECURSIVE ResultadosDe(_, _)
\* Every assignment of row sequences to the queries qs with at most n rows in all.
ResultadosDe(qs, n) ==
    IF qs = <<>> THEN {<<>>}
    ELSE UNION {{<<s>> \o r : r \in ResultadosDe(Tail(qs), n - Len(s))} :
                s \in SecuenciasHasta(FilasDe(Head(qs)), n)}

\* The source databases for a mapping with at most n rows: query text -> rows.
FuentesHasta(m, n) ==
    LET qs == ConsultasDe(m) IN
    {[q \in Rango(qs) |-> r[PrimerIndice(qs, {q})]] : r \in ResultadosDe(qs, n)}

\* The sources that differ in the identities of their rows only, every other
\* column being NULL.
SoloIdentidades(m, fuentes) ==
    {f \in fuentes :
        \A k \in DOMAIN m.entidades :
            \A fila \in Rango(f[m.entidades[k].consulta_sql]) :
                \A c \in 2..Len(fila) : fila[c] = NULL}

\* The sources of the installations checked with the most rows.
FuentesDe(m) == SoloIdentidades(m, FuentesHasta(m, MaxFilas))

\* -------------------------------------------------------------------- graph
\* The target store: nodes in creation order (the position is the node's
\* internal id), relationships as <<type, start node, end node>> records.
Nodo(etiqueta, props) == [etiqueta |-> etiqueta, props |-> props]
\* The store keeps parallel edges apart: copia numbers the edges of one
\* type between one ordered pair of nodes, from 1.
Arista(tipo, de, a) == [tipo |-> tipo, de |-> de, a |-> a, copia |-> 1]

\* The edges of a type from one node to another.
Paralelas(g, tipo, de, a) ==
    {e \in g.aristas : e.tipo = tipo /\ e.de = de /\ e.a = a}

GrafoVacio == [nodos |-> <<>>, aristas |-> {}]

\* A target with data of another origin: a node of a label no mapping names,
\* a Persona with stale values and a property no mapping writes, and an edge.
GrafoAjeno ==
    [nodos |-> << Nodo("Otro", [SinPropiedades EXCEPT !["extra"] = 9]),
                  Nodo("Persona", [SinPropiedades EXCEPT !["id_sql"] = 1,
                                       !["nombre"] = 9, !["extra"] = 9]) >>,
     aristas |-> {Arista("VISTO", 1, 2)}]

\* A target in which two Persona nodes already carry the same id_sql.
GrafoDuplicado ==
    [nodos |-> << Nodo("Persona", [SinPropiedades EXCEPT !["id_sql"] = 1]),
                  Nodo("Persona", [SinPropiedades EXCEPT !["id_sql"] = 1,
                                       !["nombre"] = 9]) >>,
     aristas |-> {}]

\* The installations checked: a mapping file, CONFIG_NEO4J['borrar_al_iniciar']
\* and what the target holds before the first run.
Escenario(mapeo, borrar, grafo) ==
    [mapeo |-> mapeo, borrar_al_iniciar |-> borrar, grafo |-> grafo]

Escenarios ==
    {Escenario(MapeoAmigos(FALSE), FALSE, GrafoVacio)}

\* The installations checked with at most MaxFilasMin source rows.
EscenariosMenores ==
    {Escenario(MapeoAmigos(FALSE), FALSE, GrafoAjeno),
     Escenario(MapeoAmigos(FALSE), FALSE, GrafoDuplicado),
     Escenario(MapeoAmigos(FALSE), TRUE, GrafoAjeno),
     Escenario(MapeoAmigos(TRUE), FALSE, GrafoAjeno),
     Escenario(MapeoRed(FALSE), FALSE, GrafoVacio),
     Escenario(MapeoCompartido, FALSE, GrafoVacio),
     Escenario(MapeoSinResolver, FALSE, GrafoVacio),
     Escenario(MapeoSinCampos, FALSE, GrafoVacio),
     Escenario(Ninguno, FALSE, GrafoVacio)}

\* The installation whose mapping file holds {}, over a target in use.
EscenariosMapeoVacio ==
    {Escenario(MapeoVacio, FALSE, GrafoAjeno)}

\* The installations checked with either store down as well.
\* The installations whose sources are taken to differ in identities only.
EscenariosSoloIdentidades ==
    {Escenario(MapeoAmigos(FALSE), TRUE, GrafoAjeno),
     Escenario(MapeoAmigos(TRUE), FALSE, GrafoAjeno),
     Escenario(MapeoRed(FALSE), FALSE, GrafoVacio),
     Escenario(MapeoSinResolver, FALSE, GrafoVacio),
     Escenario(MapeoSinCampos, FALSE, GrafoVacio)}

EscenariosConCaidas ==
    {Escenario(MapeoAmigos(FALSE), FALSE, GrafoAjeno),
     Escenario(MapeoAmigos(FALSE), TRUE, GrafoAjeno)}

Disponibles == [postgres |-> TRUE, neo4j |-> TRUE]

\* Faulty variant: the pattern without its label, MATCH (n {campo: valor}).
CoincidenciasSinEtiqueta(g, etiqueta, campo, valor) ==
    IF valor = NULL THEN {}
    ELSE {n \in DOMAIN g.nodos : g.nodos[n].props[campo] = valor}

\* Faulty variant: a pattern that matches no node, whatever the target holds
\* (every MERGE of a node then creates one).
CoincidenciasNinguna(g, etiqueta, campo, valor) == {}

\* MATCH (n:etiqueta {campo: valor}): the nodes of the label whose property
\* equals the value; a NULL parameter matches nothing.
Coincidencias(g, etiqueta, campo, valor) ==
    IF valor = NULL THEN {}
    ELSE {n \in DOMAIN g.nodos :
            /\ g.nodos[n].etiqueta = etiqueta
            /\ g.nodos[n].props[campo] = valor}

\* Faulty variant: MATCH ()-[r]->() DELETE r, which leaves the nodes.
BorrarSoloAristas(g) == [g EXCEPT !.aristas = {}]

\* sesion.run("MATCH (n) DETACH DELETE n")
BorrarTodo(g) == GrafoVacio

\* ------------------------------------------------------------------- state
VARIABLES
    programa,          \* which program works on the stores: "consola"
                       \* (migracion_poliglota.py) or "gui" (app_moderna.py)
    MAPEO_MIGRACION,   \* the mapping loaded at import
    borrar_al_iniciar, \* CONFIG_NEO4J['borrar_al_iniciar']
    postgres,          \* the source: query text -> rows (unchanged by a run)
    neo4j,             \* the target: the committed graph
    indices,           \* the target's indexes: <<label, property>>
    pc,                \* where the run is
    corrida,           \* number of the current run, from 1
    entidad_i,         \* position in MAPEO_MIGRACION['entidades']
    relacion_i,        \* position in MAPEO_MIGRACION['relaciones']
    fase,              \* the phase of ejecutar_migracion_manual, from 1
    tx,                \* the open write transaction; in the GUI, whose
                       \* statements commit one by one, the loop over the rows
    salida,            \* what the run printed
    inicial,           \* what the target held when the run started
    limpiado,          \* whether this run deleted the target's content
    lotes,             \* the batches this run committed, in order
    intentos,          \* the entities and relationships this run has read
    deshechos,         \* statements this run executed in transactions rolled back
    previa,            \* how the run before this one ended: "completada", or
                       \* "excepcion" when it raised or was killed ("ninguna" for the first)
    anterior,          \* what the target held when the run before this one
                       \* started, if that run was cut short (else as inicial)
    disponible,        \* which stores accept connections
    conexion_postgres, \* self.conexion_postgres: "sin_abrir", "abierta", "cerrada"
    driver_neo4j,      \* self.driver_neo4j: "sin_abrir", "abierta", "cerrada"
    proceso,           \* "corriendo" or "terminado"
    codigo_salida      \* the exit code of a process that has ended

vars == <<programa, MAPEO_MIGRACION, borrar_al_iniciar, postgres, neo4j, indices, pc,
          corrida, entidad_i, relacion_i, fase, tx, salida, inicial, limpiado,
          lotes, intentos, deshechos, previa, anterior, disponible,
          conexion_postgres,
          driver_neo4j, proceso, codigo_salida>>

config == <<programa, MAPEO_MIGRACION, borrar_al_iniciar, postgres, disponible>>

conexiones == <<conexion_postgres, driver_neo4j, proceso, codigo_salida>>

\* -------------------------------------------------------- Cypher generator
\* Faulty variant: every property takes the first column, registro[c] = fila[0].
RegistroPrimeraColumna(mapeo_campos, fila) ==
    [p \in {mapeo_campos[k][2] : k \in DOMAIN mapeo_campos} |-> fila[1]]

\* datos_dict: one dict per row, campo_neo4j -> fila[i]; a property mapped
\* twice keeps the later column.
Registro(mapeo_campos, fila) ==
    [p \in {mapeo_campos[k][2] : k \in DOMAIN mapeo_campos} |->
        fila[CHOOSE k \in DOMAIN mapeo_campos :
                /\ mapeo_campos[k][2] = p
                /\ \A h \in DOMAIN mapeo_campos : mapeo_campos[h][2] = p => h <= k]]

\* Faulty variant: the identity values of the rows read written into the text,
\* MERGE (n:etiqueta {id_campo: <value>}) ..., instead of the $id_campo parameter.
ConsultaNodosInterpolada(entidad) ==
    [clase |-> "nodos",
     etiqueta |-> entidad.etiqueta_neo4j,
     id_campo |-> entidad.mapeo_campos[1][2],
     campos_set |-> [k \in DOMAIN entidad.mapeo_campos |-> entidad.mapeo_campos[k][2]],
     literales |-> {postgres[entidad.consulta_sql][k][1] :
                        k \in DOMAIN postgres[entidad.consulta_sql]}]

\* MERGE (n:etiqueta {id_campo: $id_campo}) SET n.c = $c for every mapped c.
ConsultaNodos(entidad) ==
    [clase |-> "nodos",
     etiqueta |-> entidad.etiqueta_neo4j,
     id_campo |-> entidad.mapeo_campos[1][2],
     campos_set |-> [k \in DOMAIN entidad.mapeo_campos |-> entidad.mapeo_campos[k][2]]]

RegistroRelacion(fila) == [id_origen |-> fila[1], id_destino |-> fila[2]]

\* Faulty variant: the last entity with the label, as a dict of entities by
\* label built in declaration order would give.
ConfigNodoUltimo(m, etiqueta) ==
    IF \E k \in DOMAIN m.entidades : m.entidades[k].etiqueta_neo4j = etiqueta
    THEN CHOOSE k \in DOMAIN m.entidades :
            /\ m.entidades[k].etiqueta_neo4j = etiqueta
            /\ \A h \in DOMAIN m.entidades :
                    m.entidades[h].etiqueta_neo4j = etiqueta => h <= k
    ELSE 0

\* The entity a relationship endpoint resolves to: the first with the label.
ConfigNodo(m, etiqueta) ==
    PrimerIndice(m.entidades,
                 {e \in Rango(m.entidades) : e.etiqueta_neo4j = etiqueta})

\* MATCH (origen:O {idO: $id_origen}) MATCH (destino:D {idD: $id_destino})
\* MERGE (origen)-[:tipo]->(destino)
ConsultaRelaciones(m, relacion) ==
    [clase |-> "relaciones",
     nodo_origen |-> relacion.nodo_origen,
     campo_id_origen |->
        m.entidades[ConfigNodo(m, relacion.nodo_origen)].mapeo_campos[1][2],
     nodo_destino |-> relacion.nodo_destino,
     campo_id_destino |->
        m.entidades[ConfigNodo(m, relacion.nodo_destino)].mapeo_campos[1][2],
     tipo |-> relacion.tipo_relacion]

\* The four phases of ejecutar_migracion_manual: the table read, the
\* statement, and the column of the row each parameter takes.
FaseManual(nombre, consulta_sql, consulta, columnas) ==
    [nombre |-> nombre, consulta_sql |-> consulta_sql, consulta |-> consulta,
     columnas |-> columnas]

FasesManuales ==
    << FaseManual("FASE 1", "manual_usuarios",
          [clase |-> "nodos", etiqueta |-> "Persona", id_campo |-> "id_sql",
           campos_set |-> <<"nombre", "email">>],
          << <<"id_sql", 1>>, <<"nombre", 2>>, <<"email", 3>> >>),
       FaseManual("FASE 2", "manual_publicaciones",
          [clase |-> "nodos", etiqueta |-> "Post", id_campo |-> "id_sql",
           campos_set |-> <<"texto">>],
          << <<"id_sql", 1>>, <<"texto", 2>> >>),
       FaseManual("FASE 3", "manual_amistades",
          [clase |-> "relaciones", nodo_origen |-> "Persona",
           campo_id_origen |-> "id_sql", nodo_destino |-> "Persona",
           campo_id_destino |-> "id_sql", tipo |-> "AMIGO_DE"],
          << <<"id_origen", 1>>, <<"id_destino", 2>> >>),
       FaseManual("FASE 4", "manual_publicaciones",
          [clase |-> "relaciones", nodo_origen |-> "Persona",
           campo_id_origen |-> "id_sql", nodo_destino |-> "Post",
           campo_id_destino |-> "id_sql", tipo |-> "PUBLICO"],
          << <<"id_origen", 3>>, <<"id_destino", 1>> >>) >>

\* usuarios_dict and its like: one dict per row, parameter -> column.
RegistroManual(columnas, fila) ==
    [p \in {columnas[k][1] : k \in DOMAIN columnas} |->
        fila[columnas[CHOOSE k \in DOMAIN columnas : columnas[k][1] = p][2]]]

\* ------------------------------------------------------------- graph writer
\* The store refuses MERGE on a node pattern whose property value is null.
FallaCypher(consulta, registro) ==
    consulta.clase = "nodos" /\ registro[consulta.id_campo] = NULL

\* Faulty variant: SET n = $props, which replaces the whole property map of the
\* node by the parameters and so drops what the statement does not name.
AsignarReemplaza(nodo, consulta, registro) ==
    [nodo EXCEPT !.props =
        [p \in Propiedades |->
            IF p \in Rango(consulta.campos_set) THEN registro[p] ELSE NULL]]

\* SET n.c = $c on node nodo for every c of campos_set.
Asignar(nodo, consulta, registro) ==
    [nodo EXCEPT !.props =
        [p \in Propiedades |->
            IF p \in Rango(consulta.campos_set) THEN registro[p] ELSE @[p]]]

\* Faulty variant: CREATE (n:etiqueta {...}) SET ..., which never matches an
\* existing node.
EjecutarNodoCreate(g, consulta, registro) ==
    LET nuevo == Nodo(consulta.etiqueta,
                      [SinPropiedades EXCEPT
                          ![consulta.id_campo] = registro[consulta.id_campo]])
    IN [g EXCEPT !.nodos = Append(@, Asignar(nuevo, consulta, registro))]

\* Faulty variant: MERGE on every mapped property instead of the identity
\* alone, MERGE (n:etiqueta {c1: $c1, c2: $c2, ...}).
EjecutarNodoMergeTodo(g, consulta, registro) ==
    LET hay == {n \in DOMAIN g.nodos :
                    /\ g.nodos[n].etiqueta = consulta.etiqueta
                    /\ \A p \in Rango(consulta.campos_set) :
                          registro[p] # NULL /\ g.nodos[n].props[p] = registro[p]}
        nuevo == Asignar(Nodo(consulta.etiqueta, SinPropiedades), consulta, registro)
    IN IF hay = {} THEN [g EXCEPT !.nodos = Append(@, nuevo)] ELSE g

\* Faulty variant: MERGE (n:etiqueta {id_campo: $id_campo}) ON CREATE SET ...,
\* which leaves the properties of a node the MERGE matched as they were.
EjecutarNodoOnCreate(g, consulta, registro) ==
    LET valor == registro[consulta.id_campo]
        hay == Coincidencias(g, consulta.etiqueta, consulta.id_campo, valor)
        nuevo == Nodo(consulta.etiqueta,
                      [SinPropiedades EXCEPT ![consulta.id_campo] = valor])
    IN IF hay = {}
       THEN [g EXCEPT !.nodos = Append(@, Asignar(nuevo, consulta, registro))]
       ELSE g

\* transaccion.run(consulta_cypher, **registro) of an entity statement.
EjecutarNodo(g, consulta, registro) ==
    LET valor == registro[consulta.id_campo]
        hay == Coincidencias(g, consulta.etiqueta, consulta.id_campo, valor)
        nuevo == Nodo(consulta.etiqueta,
                      [SinPropiedades EXCEPT ![consulta.id_campo] = valor])
        nodos == IF hay = {} THEN Append(g.nodos, nuevo) ELSE g.nodos
        tocados == IF hay = {} THEN {Len(nodos)} ELSE hay
    IN [g EXCEPT !.nodos =
            [n \in DOMAIN nodos |->
                IF n \in tocados THEN Asignar(nodos[n], consulta, registro)
                ELSE nodos[n]]]

\* Faulty variant: the whole pattern in one MERGE,
\* MERGE (origen:O {idO: $id_origen})-[:tipo]->(destino:D {idD: $id_destino}),
\* which creates the two nodes and the edge when the pattern has no match.
EjecutarRelacionMergePatron(g, consulta, registro) ==
    LET origenes == Coincidencias(g, consulta.nodo_origen,
                                  consulta.campo_id_origen, registro.id_origen)
        destinos == Coincidencias(g, consulta.nodo_destino,
                                  consulta.campo_id_destino, registro.id_destino)
        n == Len(g.nodos)
    IN IF \E o \in origenes, d \in destinos : Arista(consulta.tipo, o, d) \in g.aristas
       THEN g
       ELSE [nodos |-> g.nodos \o
                << Nodo(consulta.nodo_origen,
                        [SinPropiedades EXCEPT
                            ![consulta.campo_id_origen] = registro.id_origen]),
                   Nodo(consulta.nodo_destino,
                        [SinPropiedades EXCEPT
                            ![consulta.campo_id_destino] = registro.id_destino]) >>,
             aristas |-> g.aristas \cup {Arista(consulta.tipo, n + 1, n + 2)}]

\* Faulty variant: CREATE (origen)-[:tipo]->(destino) after the two MATCH
\* clauses, which adds an edge for every matched pair whether or not one exists.
EjecutarRelacionCreate(g, consulta, registro) ==
    LET origenes == Coincidencias(g, consulta.nodo_origen,
                                  consulta.campo_id_origen, registro.id_origen)
        destinos == Coincidencias(g, consulta.nodo_destino,
                                  consulta.campo_id_destino, registro.id_destino)
    IN [g EXCEPT !.aristas =
            @ \cup {[Arista(consulta.tipo, o, d) EXCEPT
                        !.copia = 1 + Cardinality(Paralelas(g, consulta.tipo, o, d))] :
                    o \in origenes, d \in destinos}]

\* transaccion.run(consulta_cypher, **registro) of a relationship statement:
\* MATCH (origen:O {idO: $id_origen}) MATCH (destino:D {idD: $id_destino})
\* MERGE (origen)-[:tipo]->(destino); for every matched pair the MERGE
\* creates the edge only when the pair has none of that type.
EjecutarRelacion(g, consulta, registro) ==
    LET origenes == Coincidencias(g, consulta.nodo_origen,
                                  consulta.campo_id_origen, registro.id_origen)
        destinos == Coincidencias(g, consulta.nodo_destino,
                                  consulta.campo_id_destino, registro.id_destino)
    IN [g EXCEPT !.aristas =
            @ \cup {Arista(consulta.tipo, o, d) :
                        <<o, d>> \in {par \in origenes \X destinos :
                            Paralelas(g, consulta.tipo, par[1], par[2]) = {}}}]

EjecutarCypher(g, consulta, registro) ==
    IF consulta.clase = "nodos" THEN EjecutarNodo(g, consulta, registro)
    ELSE EjecutarRelacion(g, consulta, registro)

RECURSIVE EjecutarLote(_, _, _)
\* The statement run once per record, in order (the for loop of
\* crear_nodos_neo4j and crear_relaciones_neo4j).
EjecutarLote(g, consulta, registros) ==
    IF registros = <<>> THEN g
    ELSE EjecutarLote(EjecutarCypher(g, consulta, Head(registros)),
                      consulta, Tail(registros))

RECURSIVE EjecutarLotes(_, _)
\* The batches of a run executed in order, each in full.
EjecutarLotes(g, ls) ==
    IF ls = <<>> THEN g
    ELSE EjecutarLotes(EjecutarLote(g, Head(ls).consulta, Head(ls).registros),
                       Tail(ls))

\* execute_write: what the store holds when the transaction function returns
\* (commit) and when it raises (rollback).
Confirmar(confirmado, pendiente) == pendiente

\* Faulty variant: statements sent outside a transaction stay written.
RevertirNada(confirmado, pendiente) == pendiente

Revertir(confirmado, pendiente) == confirmado

\* ------------------------------------------------------------ transactions
SinTx == [abierta |-> FALSE]

Lote(nombre, consulta, registros) ==
    [nombre |-> nombre, consulta |-> consulta, registros |-> registros]

entidades == MAPEO_MIGRACION.entidades
relaciones == MAPEO_MIGRACION.relaciones
opciones == MAPEO_MIGRACION.opciones

\* A process started against the stores as they are.
Arranque ==
    /\ pc = "inicio"
    /\ entidad_i = 1
    /\ relacion_i = 1
    /\ fase = 1
    /\ tx = SinTx
    /\ salida = <<>>
    /\ inicial = neo4j
    /\ limpiado = FALSE
    /\ lotes = <<>>
    /\ intentos = {}
    /\ deshechos = 0
    /\ conexion_postgres = "sin_abrir"
    /\ driver_neo4j = "sin_abrir"
    /\ proceso = "corriendo"
    /\ codigo_salida = 0

\* The window of app_moderna.py is open: conectar_bases_datos has connected
\* to both stores and no migration was asked for yet.
ArranqueGui ==
    /\ pc = "gui"
    /\ entidad_i = 1
    /\ relacion_i = 1
    /\ fase = 1
    /\ tx = SinTx
    /\ salida = <<>>
    /\ inicial = neo4j
    /\ limpiado = FALSE
    /\ lotes = <<>>
    /\ intentos = {}
    /\ deshechos = 0
    /\ conexion_postgres = "abierta"
    /\ driver_neo4j = "abierta"
    /\ proceso = "corriendo"
    /\ codigo_salida = 0

InitConsola ==
    /\ programa = "consola"
    /\ \/ \E e \in Escenarios :
             /\ MAPEO_MIGRACION = e.mapeo
             /\ borrar_al_iniciar = e.borrar_al_iniciar
             /\ neo4j = e.grafo
             /\ postgres \in FuentesDe(e.mapeo)
             /\ disponible = Disponibles
       \/ \E e \in EscenariosMenores :
             /\ MAPEO_MIGRACION = e.mapeo
             /\ borrar_al_iniciar = e.borrar_al_iniciar
             /\ neo4j = e.grafo
             /\ postgres \in IF e \in EscenariosSoloIdentidades
                              THEN SoloIdentidades(e.mapeo,
                                        FuentesHasta(e.mapeo, MaxFilasMin))
                              ELSE FuentesHasta(e.mapeo, MaxFilasMin)
             /\ disponible \in IF e \in EscenariosConCaidas
                                THEN [postgres : BOOLEAN, neo4j : BOOLEAN]
                                ELSE {Disponibles}
       \/ \E e \in EscenariosMapeoVacio :
             /\ MAPEO_MIGRACION = e.mapeo
             /\ borrar_al_iniciar = e.borrar_al_iniciar
             /\ neo4j = e.grafo
             /\ postgres \in FuentesHasta(e.mapeo, MaxFilasVacio)
             /\ disponible = Disponibles
    /\ indices = {}
    /\ corrida = 1
    /\ previa = "ninguna"
    /\ anterior = neo4j
    /\ Arranque

\* The GUI over the installations of the four-phase console migration: the
\* same sources and the same targets. app_moderna.py loads no mapping and has
\* no borrar_al_iniciar.
InitGui ==
    /\ programa = "gui"
    /\ MAPEO_MIGRACION = Ninguno
    /\ borrar_al_iniciar = FALSE
    /\ disponible = Disponibles
    /\ \/ /\ neo4j = GrafoVacio
          /\ postgres \in FuentesHasta(Ninguno, MaxFilasMin)
       \/ /\ neo4j = GrafoAjeno
          /\ postgres \in FuentesHasta(Ninguno, MaxFilasVacio)
    /\ indices = {}
    /\ corrida = 1
    /\ previa = "ninguna"
    /\ anterior = neo4j
    /\ ArranqueGui

Init == InitConsola \/ InitGui

\* ------------------------------------------------------------ constructor
\* MigradorPoliglota.__init__: connect, then limpiar_neo4j() when configured.
\* psycopg2.connect connects at once; GraphDatabase.driver opens no connection,
\* so the graph store is first contacted by the first statement sent to it.
Construir ==
    /\ pc = "inicio"
    /\ disponible.postgres
    /\ borrar_al_iniciar => disponible.neo4j
    /\ conexion_postgres' = "abierta"
    /\ driver_neo4j' = "abierta"
    /\ neo4j' = IF borrar_al_iniciar THEN BorrarTodo(neo4j) ELSE neo4j
    /\ limpiado' = borrar_al_iniciar
    /\ pc' = "migrar"
    /\ UNCHANGED <<config, anterior, fase, indices, corrida, entidad_i, relacion_i, tx, salida,
                   inicial, lotes, intentos, deshechos, previa, proceso,
                   codigo_salida>>

\* except Exception in __init__: the error is printed and sys.exit(1) ends
\* the process; in __main__ migrador is still None, so nothing is closed.
SalirDelConstructor(error) ==
    /\ salida' = Append(salida, <<error>>)
    /\ pc' = "salida"
    /\ proceso' = "terminado"
    /\ codigo_salida' = 1
    /\ UNCHANGED <<config, anterior, fase, neo4j, indices, corrida, entidad_i, relacion_i, tx,
                   inicial, limpiado, lotes, intentos, deshechos, previa>>

\* psycopg2.connect raises.
FallaConexionPostgres ==
    /\ pc = "inicio"
    /\ ~disponible.postgres
    /\ UNCHANGED <<conexion_postgres, driver_neo4j>>
    /\ SalirDelConstructor("error_conexion")

\* GraphDatabase.driver raises (a URI or credentials it does not accept),
\* with the relational connection already open.
FallaDriverNeo4j ==
    /\ pc = "inicio"
    /\ disponible.postgres
    /\ conexion_postgres' = "abierta"
    /\ UNCHANGED driver_neo4j
    /\ SalirDelConstructor("error_conexion")

\* limpiar_neo4j raises in the constructor, with both connections acquired.
FallaLimpiezaInicial ==
    /\ pc = "inicio"
    /\ disponible.postgres
    /\ borrar_al_iniciar
    /\ conexion_postgres' = "abierta"
    /\ driver_neo4j' = "abierta"
    /\ SalirDelConstructor("error_limpieza")

\* ejecutar_migracion: the mapping-driven run when MAPEO_MIGRACION is true,
\* else the manual one; each prints which it is.
EjecutarMigracion ==
    /\ pc = "migrar"
    /\ IF Verdadero(MAPEO_MIGRACION)
       THEN /\ pc' = "limpiar"
            /\ salida' = Append(salida, <<"modo", "automatica">>)
       ELSE /\ pc' = "manual"
            /\ salida' = Append(salida, <<"modo", "manual">>)
    /\ UNCHANGED <<config, anterior, fase, conexiones, neo4j, indices, corrida, entidad_i,
                   relacion_i, tx, inicial, limpiado, lotes, intentos,
                   deshechos, previa>>

\* ------------------------------------------------- ejecutar_migracion_automatica
\* Where the run goes after entity e - 1 / relationship r - 1 is dealt with.
\* Faulty variant: the clearing entered again after the last relationship.
PcTrasRelacionRepite(r) == IF r <= Len(relaciones) THEN "relacion" ELSE "limpiar"
PcTrasRelacion(r) == IF r <= Len(relaciones) THEN "relacion" ELSE "indices"
\* Faulty variant: the relationship loop entered without the entity loop done.
PcTrasEntidadSinEsperar(e) == PcTrasRelacion(1)
PcTrasEntidad(e) == IF e <= Len(entidades) THEN "entidad" ELSE PcTrasRelacion(1)

\* if opciones.get('limpiar_neo4j_antes'): sesion.run("MATCH (n) DETACH DELETE n")
\* Faulty variant: the failure of the clearing caught like that of an index.
FallaLimpiarAntesContinua ==
    /\ pc = "limpiar"
    /\ opciones.limpiar_neo4j_antes
    /\ salida' = Append(salida, <<"error_limpieza">>)
    /\ pc' = PcTrasEntidad(1)
    /\ UNCHANGED <<config, anterior, fase, conexiones, neo4j, indices, corrida, entidad_i,
                   relacion_i, tx, inicial, limpiado, lotes, intentos,
                   deshechos, previa>>

\* sesion.run("MATCH (n) DETACH DELETE n") raises: nothing catches it.
FallaLimpiarAntes ==
    /\ pc = "limpiar"
    /\ opciones.limpiar_neo4j_antes
    /\ salida' = Append(salida, <<"error_limpieza">>)
    /\ pc' = "excepcion"
    /\ UNCHANGED <<config, anterior, fase, conexiones, neo4j, indices, corrida, entidad_i,
                   relacion_i, tx, inicial, limpiado, lotes, intentos,
                   deshechos, previa>>

LimpiarAntes ==
    /\ pc = "limpiar"
    /\ opciones.limpiar_neo4j_antes => disponible.neo4j
    /\ neo4j' = IF opciones.limpiar_neo4j_antes THEN BorrarTodo(neo4j) ELSE neo4j
    /\ limpiado' = (limpiado \/ opciones.limpiar_neo4j_antes)
    /\ pc' = PcTrasEntidad(1)
    /\ UNCHANGED <<config, anterior, fase, conexiones, indices, corrida, entidad_i, relacion_i, tx, salida,
                   inicial, lotes, intentos, deshechos, previa>>

\* Faulty variant: no `if not datos: continue`; an entity without rows is
\* converted, generated and written like any other.
MigrarEntidadSinSalto ==
    /\ pc = "entidad"
    /\ LET entidad == entidades[entidad_i]
           datos == postgres[entidad.consulta_sql]
       IN /\ intentos' = intentos \cup {entidad.nombre}
          /\ IF entidad.mapeo_campos = <<>>
             THEN /\ pc' = "excepcion"
                  /\ UNCHANGED <<entidad_i, salida, tx>>
             ELSE /\ tx' = [abierta |-> TRUE,
                            nombre |-> entidad.nombre,
                            grafo |-> neo4j,
                            consulta |-> ConsultaNodos(entidad),
                            registros |->
                                [k \in DOMAIN datos |->
                                    Registro(entidad.mapeo_campos, datos[k])],
                            k |-> 1]
                  /\ pc' = "crear_nodos"
                  /\ UNCHANGED <<entidad_i, salida>>
    /\ UNCHANGED <<config, anterior, fase, conexiones, neo4j, indices, corrida, relacion_i, inicial,
                   limpiado, lotes, deshechos, previa>>

\* One pass of "for entidad in entidades" up to the start of its write
\* transaction: read, skip on no rows, convert, generate.
MigrarEntidad ==
    /\ pc = "entidad"
    /\ LET entidad == entidades[entidad_i]
           datos == postgres[entidad.consulta_sql]
       IN /\ intentos' = intentos \cup {entidad.nombre}
          /\ IF datos = <<>>
             THEN /\ entidad_i' = entidad_i + 1
                  /\ pc' = PcTrasEntidad(entidad_i + 1)
                  /\ salida' = Append(salida, <<"sin_datos", entidad.nombre>>)
                  /\ tx' = tx
             ELSE IF entidad.mapeo_campos = <<>>
             THEN \* campos_neo4j[0] raises IndexError
                  /\ pc' = "excepcion"
                  /\ UNCHANGED <<entidad_i, salida, tx>>
             ELSE /\ tx' = [abierta |-> TRUE,
                            nombre |-> entidad.nombre,
                            grafo |-> neo4j,
                            consulta |-> ConsultaNodos(entidad),
                            registros |->
                                [k \in DOMAIN datos |->
                                    Registro(entidad.mapeo_campos, datos[k])],
                            k |-> 1]
                  /\ pc' = "crear_nodos"
                  /\ UNCHANGED <<entidad_i, salida>>
    /\ UNCHANGED <<config, anterior, fase, conexiones, neo4j, indices, corrida, relacion_i, inicial,
                   limpiado, lotes, deshechos, previa>>

\* obtener_datos_postgresql raises: nothing in the run catches it.
FallaConsultaSql ==
    /\ pc \in {"entidad", "relacion", "manual"}
    /\ LET nombre == IF pc = "entidad" THEN entidades[entidad_i].nombre
                     ELSE IF pc = "relacion" THEN relaciones[relacion_i].nombre
                     ELSE FasesManuales[fase].nombre
       IN /\ intentos' = intentos \cup {nombre}
          /\ salida' = Append(salida, <<"error_sql", nombre>>)
    /\ pc' = "excepcion"
    /\ UNCHANGED <<config, anterior, fase, conexiones, neo4j, indices, corrida, entidad_i, relacion_i, tx,
                   inicial, limpiado, lotes, deshechos, previa>>

\* transaccion.run for the next record of the open transaction; an error of
\* the statement leaves the transaction function, which rolls back.
EjecutarRegistro ==
    LET registro == tx.registros[tx.k] IN
    IF FallaCypher(tx.consulta, registro)
    THEN /\ neo4j' = Revertir(neo4j, tx.grafo)
         /\ tx' = SinTx
         /\ salida' = Append(salida, <<"error_escritura">>)
         /\ deshechos' = deshechos + (tx.k - 1)
         /\ pc' = "excepcion"
    ELSE /\ tx' = [tx EXCEPT !.grafo = EjecutarCypher(@, tx.consulta, registro),
                             !.k = @ + 1]
         /\ UNCHANGED <<neo4j, salida, pc, deshechos>>

\* crear_nodos_neo4j: the loop over the records.
CrearNodos ==
    /\ pc = "crear_nodos"
    /\ disponible.neo4j
    /\ tx.k <= Len(tx.registros)
    /\ EjecutarRegistro
    /\ UNCHANGED <<config, anterior, fase, conexiones, indices, corrida, entidad_i, relacion_i, inicial,
                   limpiado, lotes, intentos, previa>>

\* crear_nodos_neo4j returns: its count is printed, execute_write commits.
ConfirmarNodos ==
    /\ pc = "crear_nodos"
    /\ disponible.neo4j
    /\ tx.k > Len(tx.registros)
    /\ salida' = Append(salida, <<"nodos_creados", tx.consulta.etiqueta,
                                  Len(tx.registros)>>)
    /\ neo4j' = Confirmar(neo4j, tx.grafo)
    /\ lotes' = Append(lotes, Lote(tx.nombre, tx.consulta, tx.registros))
    /\ tx' = SinTx
    /\ entidad_i' = entidad_i + 1
    /\ pc' = PcTrasEntidad(entidad_i + 1)
    /\ UNCHANGED <<config, anterior, fase, conexiones, indices, corrida, relacion_i, inicial, limpiado,
                   intentos, deshechos, previa>>

\* The store or the connection fails while a write transaction is open:
\* execute_write rolls back and raises.
FallaEscritura ==
    /\ pc \in {"crear_nodos", "crear_relaciones", "manual_escribir"}
    /\ neo4j' = Revertir(neo4j, tx.grafo)
    /\ tx' = SinTx
    /\ salida' = Append(salida, <<"error_escritura">>)
    /\ deshechos' = deshechos + (tx.k - 1)
    /\ pc' = "excepcion"
    /\ UNCHANGED <<config, anterior, fase, conexiones, indices, corrida, entidad_i, relacion_i, inicial,
                   limpiado, lotes, intentos, previa>>

\* Faulty variant: both labels are looked up among the entities before the
\* rows are looked at, so a relationship without rows fails on them too.
MigrarRelacionResuelveAntes ==
    /\ pc = "relacion"
    /\ LET relacion == relaciones[relacion_i]
           datos == postgres[relacion.consulta_sql]
       IN /\ intentos' = intentos \cup {relacion.nombre}
          /\ IF \/ ConfigNodo(MAPEO_MIGRACION, relacion.nodo_origen) = 0
                \/ ConfigNodo(MAPEO_MIGRACION, relacion.nodo_destino) = 0
             THEN /\ pc' = "excepcion"
                  /\ UNCHANGED <<relacion_i, salida, tx>>
             ELSE IF datos = <<>>
             THEN /\ relacion_i' = relacion_i + 1
                  /\ pc' = PcTrasRelacion(relacion_i + 1)
                  /\ salida' = Append(salida, <<"sin_datos", relacion.nombre>>)
                  /\ tx' = tx
             ELSE /\ tx' = [abierta |-> TRUE,
                            nombre |-> relacion.nombre,
                            grafo |-> neo4j,
                            consulta |-> ConsultaRelaciones(MAPEO_MIGRACION, relacion),
                            registros |->
                                [k \in DOMAIN datos |-> RegistroRelacion(datos[k])],
                            k |-> 1]
                  /\ pc' = "crear_relaciones"
                  /\ UNCHANGED <<relacion_i, salida>>
    /\ UNCHANGED <<config, anterior, fase, conexiones, neo4j, indices, corrida, entidad_i, inicial,
                   limpiado, lotes, deshechos, previa>>

\* One pass of "for relacion in relaciones" up to the start of its write
\* transaction: read, skip on no rows, convert, resolve both labels, generate.
MigrarRelacion ==
    /\ pc = "relacion"
    /\ LET relacion == relaciones[relacion_i]
           datos == postgres[relacion.consulta_sql]
       IN /\ intentos' = intentos \cup {relacion.nombre}
          /\ IF datos = <<>>
             THEN /\ relacion_i' = relacion_i + 1
                  /\ pc' = PcTrasRelacion(relacion_i + 1)
                  /\ salida' = Append(salida, <<"sin_datos", relacion.nombre>>)
                  /\ tx' = tx
             ELSE IF \/ ConfigNodo(MAPEO_MIGRACION, relacion.nodo_origen) = 0
                     \/ ConfigNodo(MAPEO_MIGRACION, relacion.nodo_destino) = 0
             THEN \* next(...) raises StopIteration
                  /\ pc' = "excepcion"
                  /\ UNCHANGED <<relacion_i, salida, tx>>
             ELSE /\ tx' = [abierta |-> TRUE,
                            nombre |-> relacion.nombre,
                            grafo |-> neo4j,
                            consulta |-> ConsultaRelaciones(MAPEO_MIGRACION, relacion),
                            registros |->
                                [k \in DOMAIN datos |-> RegistroRelacion(datos[k])],
                            k |-> 1]
                  /\ pc' = "crear_relaciones"
                  /\ UNCHANGED <<relacion_i, salida>>
    /\ UNCHANGED <<config, anterior, fase, conexiones, neo4j, indices, corrida, entidad_i, inicial,
                   limpiado, lotes, deshechos, previa>>

\* crear_relaciones_neo4j: the loop over the records.
CrearRelaciones ==
    /\ pc = "crear_relaciones"
    /\ disponible.neo4j
    /\ tx.k <= Len(tx.registros)
    /\ EjecutarRegistro
    /\ UNCHANGED <<config, anterior, fase, conexiones, indices, corrida, entidad_i, relacion_i, inicial,
                   limpiado, lotes, intentos, previa>>

\* crear_relaciones_neo4j returns: its count is printed, execute_write commits.
ConfirmarRelaciones ==
    /\ pc = "crear_relaciones"
    /\ disponible.neo4j
    /\ tx.k > Len(tx.registros)
    /\ salida' = Append(salida, <<"relaciones_creadas", tx.consulta.tipo,
                                  Len(tx.registros)>>)
    /\ neo4j' = Confirmar(neo4j, tx.grafo)
    /\ lotes' = Append(lotes, Lote(tx.nombre, tx.consulta, tx.registros))
    /\ tx' = SinTx
    /\ relacion_i' = relacion_i + 1
    /\ pc' = PcTrasRelacion(relacion_i + 1)
    /\ UNCHANGED <<config, anterior, fase, conexiones, indices, corrida, entidad_i, inicial, limpiado,
                   intentos, deshechos, previa>>

\* ---------------------------------------------------- ejecutar_migracion_manual
\* A phase up to the start of its write transaction: read the table and
\* convert the rows; a table without rows is written like any other.
ManualLeer ==
    /\ pc = "manual"
    /\ LET f == FasesManuales[fase]
           datos == postgres[f.consulta_sql]
       IN /\ intentos' = intentos \cup {f.nombre}
          /\ tx' = [abierta |-> TRUE,
                    nombre |-> f.nombre,
                    grafo |-> neo4j,
                    consulta |-> f.consulta,
                    registros |->
                        [k \in DOMAIN datos |-> RegistroManual(f.columnas, datos[k])],
                    k |-> 1]
          /\ pc' = "manual_escribir"
    /\ UNCHANGED <<config, anterior, fase, conexiones, neo4j, indices, corrida, entidad_i,
                   relacion_i, salida, inicial, limpiado, lotes, deshechos, previa>>

\* crear_nodos_neo4j / crear_relaciones_neo4j: the loop over the records.
ManualEscribir ==
    /\ pc = "manual_escribir"
    /\ disponible.neo4j
    /\ tx.k <= Len(tx.registros)
    /\ EjecutarRegistro
    /\ UNCHANGED <<config, anterior, fase, conexiones, indices, corrida, entidad_i,
                   relacion_i, inicial, limpiado, lotes, intentos, previa>>

\* The loop returns: its count is printed, execute_write commits, and the
\* next phase follows; after the fourth the run returns.
ManualConfirmar ==
    /\ pc = "manual_escribir"
    /\ disponible.neo4j
    /\ tx.k > Len(tx.registros)
    /\ salida' = Append(salida,
          IF tx.consulta.clase = "nodos"
          THEN <<"nodos_creados", tx.consulta.etiqueta, Len(tx.registros)>>
          ELSE <<"relaciones_creadas", tx.consulta.tipo, Len(tx.registros)>>)
    /\ neo4j' = Confirmar(neo4j, tx.grafo)
    /\ lotes' = Append(lotes, Lote(tx.nombre, tx.consulta, tx.registros))
    /\ tx' = SinTx
    /\ fase' = fase + 1
    /\ pc' = IF fase < Len(FasesManuales) THEN "manual" ELSE "completada"
    /\ UNCHANGED <<config, anterior, conexiones, indices, corrida, entidad_i, relacion_i,
                   inicial, limpiado, intentos, deshechos, previa>>

\* FASE 3: CREATE INDEX IF NOT EXISTS per entity, each in its own try/except,
\* which prints the index created or the error.
CrearIndices ==
    /\ pc = "indices"
    /\ IF opciones.crear_indices
       THEN LET sin_campos == PrimerIndice([e \in DOMAIN entidades |->
                                              entidades[e].mapeo_campos], {<<>>})
                alcanzadas == IF sin_campos = 0 THEN DOMAIN entidades
                              ELSE 1..(sin_campos - 1)
            IN \* list(mapeo_campos.values())[0] is outside the try: IndexError
               /\ \E fallan \in SUBSET alcanzadas :
                    /\ ~disponible.neo4j => fallan = alcanzadas
                    /\ indices' = indices \cup
                        {<<entidades[e].etiqueta_neo4j,
                           entidades[e].mapeo_campos[1][2]>> :
                             e \in alcanzadas \ fallan}
                    /\ salida' = salida \o
                        [e \in alcanzadas |->
                            IF e \in fallan THEN <<"error_indice">>
                            ELSE <<"indice", entidades[e].etiqueta_neo4j,
                                   entidades[e].mapeo_campos[1][2]>>]
               /\ pc' = IF sin_campos = 0 THEN "estadisticas" ELSE "excepcion"
       ELSE /\ indices' = indices
            /\ salida' = salida
            /\ pc' = "estadisticas"
    /\ UNCHANGED <<config, anterior, fase, conexiones, neo4j, corrida, entidad_i, relacion_i, tx,
                   inicial, limpiado, lotes, intentos, deshechos, previa>>

ContarNodos(g, etiqueta) ==
    Cardinality({n \in DOMAIN g.nodos : g.nodos[n].etiqueta = etiqueta})
ContarAristas(g, tipo) ==
    Cardinality({a \in g.aristas : a.tipo = tipo})

\* FASE 4: count(n) per label and count(r) per relationship type, printed.
Estadisticas ==
    /\ pc = "estadisticas"
    /\ IF disponible.neo4j \/ (entidades = <<>> /\ relaciones = <<>>)
       THEN /\ salida' = salida
                  \o [e \in DOMAIN entidades |->
                        <<"total_nodos", entidades[e].etiqueta_neo4j,
                          ContarNodos(neo4j, entidades[e].etiqueta_neo4j)>>]
                  \o [r \in DOMAIN relaciones |->
                        <<"total_relaciones", relaciones[r].tipo_relacion,
                          ContarAristas(neo4j, relaciones[r].tipo_relacion)>>]
            /\ pc' = "completada"
       ELSE \* the first count raises: nothing catches it
            /\ salida' = salida
            /\ pc' = "excepcion"
    /\ UNCHANGED <<config, anterior, fase, conexiones, neo4j, indices, corrida, entidad_i, relacion_i, tx,
                   inicial, limpiado, lotes, intentos, deshechos, previa>>

\* ---------------------------------------------------------------- __main__
Terminada == pc \in {"completada", "excepcion"}

\* The run has returned or raised: except prints the error, finally closes
\* both connections, and the interpreter ends with nothing left to run.
Finalizar ==
    /\ Terminada
    /\ proceso = "corriendo"
    /\ salida' = IF pc = "excepcion" THEN Append(salida, <<"error_migracion">>)
                 ELSE Append(salida, <<"resultado">>)
    /\ conexion_postgres' = "cerrada"
    /\ driver_neo4j' = "cerrada"
    /\ proceso' = "terminado"
    /\ codigo_salida' = 0
    /\ UNCHANGED <<config, anterior, fase, neo4j, indices, pc, corrida, entidad_i, relacion_i,
                   tx, inicial, limpiado, lotes, intentos, deshechos, previa>>

\* ---------------------------------------------------------------- the GUI
\* Faulty variant: the authorship statement given the publication as $autor
\* and the author as $post.
FasesGuiAlReves ==
    << FaseManual("FASE 1", "manual_usuarios",
          [clase |-> "nodos", etiqueta |-> "Persona", id_campo |-> "id_sql",
           campos_set |-> <<"nombre", "email">>],
          << <<"id_sql", 1>>, <<"nombre", 2>>, <<"email", 3>> >>),
       FaseManual("FASE 2", "manual_publicaciones",
          [clase |-> "nodos", etiqueta |-> "Post", id_campo |-> "id_sql",
           campos_set |-> <<"texto">>],
          << <<"id_sql", 1>>, <<"texto", 2>> >>),
       FaseManual("FASE 3", "manual_amistades",
          [clase |-> "relaciones", nodo_origen |-> "Persona",
           campo_id_origen |-> "id_sql", nodo_destino |-> "Persona",
           campo_id_destino |-> "id_sql", tipo |-> "AMIGO_DE"],
          << <<"id_origen", 1>>, <<"id_destino", 2>> >>),
       FaseManual("FASE 4", "manual_publicaciones",
          [clase |-> "relaciones", nodo_origen |-> "Persona",
           campo_id_origen |-> "id_sql", nodo_destino |-> "Post",
           campo_id_destino |-> "id_sql", tipo |-> "PUBLICO"],
          << <<"id_origen", 1>>, <<"id_destino", 3>> >>) >>

\* The four phases of migrar_a_neo4j: the table read, the statement, and the
\* column of the row each parameter takes.
FasesGui ==
    << FaseManual("FASE 1", "manual_usuarios",
          [clase |-> "nodos", etiqueta |-> "Persona", id_campo |-> "id_sql",
           campos_set |-> <<"nombre", "email">>],
          << <<"id_sql", 1>>, <<"nombre", 2>>, <<"email", 3>> >>),
       FaseManual("FASE 2", "manual_publicaciones",
          [clase |-> "nodos", etiqueta |-> "Post", id_campo |-> "id_sql",
           campos_set |-> <<"texto">>],
          << <<"id_sql", 1>>, <<"texto", 2>> >>),
       FaseManual("FASE 3", "manual_amistades",
          [clase |-> "relaciones", nodo_origen |-> "Persona",
           campo_id_origen |-> "id_sql", nodo_destino |-> "Persona",
           campo_id_destino |-> "id_sql", tipo |-> "AMIGO_DE"],
          << <<"id_origen", 1>>, <<"id_destino", 2>> >>),
       FaseManual("FASE 4", "manual_publicaciones",
          [clase |-> "relaciones", nodo_origen |-> "Persona",
           campo_id_origen |-> "id_sql", nodo_destino |-> "Post",
           campo_id_destino |-> "id_sql", tipo |-> "PUBLICO"],
          << <<"id_origen", 3>>, <<"id_destino", 1>> >>) >>

\* The migration button: the log is cleared and the session and the cursor
\* are opened. The button is there again after a migration has ended.
MigrarANeo4j ==
    /\ programa = "gui"
    /\ \/ pc = "gui" /\ corrida' = corrida
       \/ /\ pc \in {"gui_completada", "gui_error"}
          /\ corrida < MaxCorridas
          /\ corrida' = corrida + 1
    /\ previa' = IF pc = "gui" THEN previa
                 ELSE IF pc = "gui_completada" THEN "completada" ELSE "excepcion"
    /\ anterior' = IF pc = "gui_error" THEN inicial ELSE neo4j
    /\ inicial' = neo4j
    /\ salida' = << <<"inicio">> >>
    /\ fase' = 1
    /\ tx' = SinTx
    /\ intentos' = {}
    /\ pc' = "gui_leer"
    /\ UNCHANGED <<config, conexiones, neo4j, indices, entidad_i, relacion_i,
                   limpiado, lotes, deshechos>>

\* cursor.execute and fetchall of the phase, and the count logged.
GuiLeer ==
    /\ pc = "gui_leer"
    /\ LET f == FasesGui[fase]
           datos == postgres[f.consulta_sql]
       IN /\ intentos' = intentos \cup {f.nombre}
          /\ tx' = [abierta |-> FALSE,
                    nombre |-> f.nombre,
                    consulta |-> f.consulta,
                    registros |->
                        [k \in DOMAIN datos |-> RegistroManual(f.columnas, datos[k])],
                    k |-> 1]
          /\ salida' = Append(salida, <<"encontrados", f.nombre, Len(datos)>>)
    /\ pc' = "gui_escribir"
    /\ UNCHANGED <<config, anterior, fase, conexiones, neo4j, indices, corrida,
                   entidad_i, relacion_i, inicial, limpiado, lotes, deshechos,
                   previa>>

\* sesion.run for the next row: an auto-commit statement, in the target as
\* soon as it returns. An error of the statement ends the migration in the
\* except clause, the rows written before it staying written.
GuiEscribir ==
    /\ pc = "gui_escribir"
    /\ tx.k <= Len(tx.registros)
    /\ LET registro == tx.registros[tx.k] IN
       IF FallaCypher(tx.consulta, registro)
       THEN /\ salida' = Append(salida, <<"error">>)
            /\ tx' = SinTx
            /\ pc' = "gui_error"
            /\ UNCHANGED neo4j
       ELSE /\ neo4j' = EjecutarCypher(neo4j, tx.consulta, registro)
            /\ tx' = [tx EXCEPT !.k = @ + 1]
            /\ UNCHANGED <<salida, pc>>
    /\ UNCHANGED <<config, anterior, fase, conexiones, indices, corrida, entidad_i,
                   relacion_i, inicial, limpiado, lotes, intentos, deshechos,
                   previa>>

\* The loop over the rows has ended: the phase is logged as migrated and the
\* next follows; after the fourth the migration is logged as completed.
GuiFinDeFase ==
    /\ pc = "gui_escribir"
    /\ tx.k > Len(tx.registros)
    /\ salida' = IF fase < Len(FasesGui)
                 THEN Append(salida, <<"migrados", tx.nombre>>)
                 ELSE salida \o << <<"migrados", tx.nombre>>, <<"completada">> >>
    /\ tx' = SinTx
    /\ fase' = fase + 1
    /\ pc' = IF fase < Len(FasesGui) THEN "gui_leer" ELSE "gui_completada"
    /\ UNCHANGED <<config, anterior, conexiones, neo4j, indices, corrida,
                   entidad_i, relacion_i, inicial, limpiado, lotes, intentos,
                   deshechos, previa>>

\* A query or a statement raises (a store that stopped answering): the
\* except clause logs the error and the migration ends there.
GuiFalla ==
    /\ pc \in {"gui_leer", "gui_escribir"}
    /\ salida' = Append(salida, <<"error">>)
    /\ tx' = SinTx
    /\ pc' = "gui_error"
    /\ UNCHANGED <<config, anterior, fase, conexiones, neo4j, indices, corrida,
                   entidad_i, relacion_i, inicial, limpiado, lotes, intentos,
                   deshechos, previa>>

\* The process is killed while the run is under way (no handler in the
\* program: nothing is printed, nothing is closed by it). The store rolls back
\* the transaction the process had open.
Abortar ==
    /\ programa = "consola"
    /\ proceso = "corriendo"
    /\ corrida < MaxCorridas
    /\ pc \notin {"inicio", "salida", "completada", "excepcion"}
    /\ neo4j' = IF tx.abierta THEN Revertir(neo4j, tx.grafo) ELSE neo4j
    /\ deshechos' = IF tx.abierta THEN deshechos + (tx.k - 1) ELSE deshechos
    /\ tx' = SinTx
    /\ pc' = "abortada"
    /\ proceso' = "terminado"
    /\ codigo_salida' = 1
    /\ UNCHANGED <<config, anterior, fase, conexion_postgres, driver_neo4j, indices,
                   corrida, entidad_i, relacion_i, salida, inicial, limpiado,
                   lotes, intentos, previa>>

\* The process has ended and the program is started again: same source, the
\* target as the last run left it. (A process that ended in its constructor
\* left both stores as they were: starting again after it is a first run.)
NuevaCorrida ==
    /\ Terminada \/ pc = "abortada"
    /\ proceso = "terminado"
    /\ corrida < MaxCorridas
    /\ corrida' = corrida + 1
    /\ previa' = IF pc = "completada" THEN "completada" ELSE "excepcion"
    /\ anterior' = IF pc = "completada" THEN neo4j ELSE inicial
    /\ pc' = "inicio"
    /\ entidad_i' = 1
    /\ relacion_i' = 1
    /\ fase' = 1
    /\ tx' = SinTx
    /\ salida' = <<>>
    /\ inicial' = neo4j
    /\ limpiado' = FALSE
    /\ lotes' = <<>>
    /\ intentos' = {}
    /\ deshechos' = 0
    /\ conexion_postgres' = "sin_abrir"
    /\ driver_neo4j' = "sin_abrir"
    /\ proceso' = "corriendo"
    /\ codigo_salida' = 0
    /\ UNCHANGED <<config, neo4j, indices>>

Next ==
    \/ Construir
    \/ FallaConexionPostgres
    \/ FallaDriverNeo4j
    \/ FallaLimpiezaInicial
    \/ EjecutarMigracion
    \/ LimpiarAntes
    \/ FallaLimpiarAntes
    \/ MigrarEntidad
    \/ FallaConsultaSql
    \/ CrearNodos
    \/ ConfirmarNodos
    \/ FallaEscritura
    \/ MigrarRelacion
    \/ CrearRelaciones
    \/ ConfirmarRelaciones
    \/ CrearIndices
    \/ Estadisticas
    \/ ManualLeer
    \/ ManualEscribir
    \/ ManualConfirmar
    \/ Finalizar
    \/ MigrarANeo4j
    \/ GuiLeer
    \/ GuiEscribir
    \/ GuiFinDeFase
    \/ GuiFalla
    \/ Abortar
    \/ NuevaCorrida

Spec == Init /\ [][Next]_vars

\* =================================================================== claims
\* The run is the mapping-driven one.
Automatica == Verdadero(MAPEO_MIGRACION)

\* What the run reads and writes, in either mode: names and queries.
Unidades ==
    IF Automatica THEN Rango(entidades) \cup Rango(relaciones)
    ELSE Rango(FasesManuales)

\* The identity property of an entity and the identity values its query returns.
IdCampo(entidad) == entidad.mapeo_campos[1][2]
IdsDevueltos(entidad) ==
    {fila[1] : fila \in Rango(postgres[entidad.consulta_sql])}

NodosCon(g, etiqueta, campo, valor) ==
    {n \in DOMAIN g.nodos :
        g.nodos[n].etiqueta = etiqueta /\ g.nodos[n].props[campo] = valor}

\* The entity that declares a label (mappings with distinct labels).
EntidadDe(etiqueta) ==
    CHOOSE e \in Rango(entidades) : e.etiqueta_neo4j = etiqueta

\* The edges a relationship's rows stand for in graph g: one per pair of
\* nodes whose labels and identity values are those of a returned row.
AristasEsperadas(g, relacion) ==
    {Arista(relacion.tipo_relacion, par[1], par[2]) :
        par \in {p \in (DOMAIN g.nodos) \X (DOMAIN g.nodos) :
            /\ g.nodos[p[1]].etiqueta = relacion.nodo_origen
            /\ g.nodos[p[2]].etiqueta = relacion.nodo_destino
            /\ << g.nodos[p[1]].props[IdCampo(EntidadDe(relacion.nodo_origen))],
                  g.nodos[p[2]].props[IdCampo(EntidadDe(relacion.nodo_destino))] >>
               \in Rango(postgres[relacion.consulta_sql])}}

C1_TestigoRepetida ==
    /\ Automatica /\ pc = "completada" /\ inicial = GrafoVacio /\ corrida = 1
    /\ Len(postgres["usuarios"]) = 2
    /\ IdsDevueltos(EntPersona) = {1}
    /\ postgres["amistades"] = << <<1, 1>> >>
    /\ neo4j.aristas = {Arista("AMIGO_DE", 1, 1)}

HayRepetidos(g, etiqueta, campo) ==
    \E n1, n2 \in DOMAIN g.nodos :
        /\ n1 # n2
        /\ g.nodos[n1].etiqueta = etiqueta
        /\ g.nodos[n2].etiqueta = etiqueta
        /\ g.nodos[n1].props[campo] # NULL
        /\ g.nodos[n1].props[campo] = g.nodos[n2].props[campo]

\* C3 (as stated): after a completed run no two nodes of a declared entity's
\* label share the value of its identity property.
C3_IdentidadUnica ==
    (Automatica /\ pc = "completada") =>
        \A e \in Rango(entidades) :
            ~HayRepetidos(neo4j, e.etiqueta_neo4j, IdCampo(e))

\* The label of entity e is declared by no other entity.
EtiquetaPropia(e) ==
    \A o \in Rango(entidades) : o.etiqueta_neo4j = e.etiqueta_neo4j => o = e

\* C3 (amended): after a completed run, for every entity whose label no other
\* entity declares, no two nodes of the label share the identity value,
\* provided the run cleared the target or the target held no such pair when
\* the run started; repeated identity values in the source rows included.
C3_IdentidadUnicaSinPrevios ==
    (Automatica /\ pc = "completada") =>
        \A e \in Rango(entidades) :
            (/\ EtiquetaPropia(e)
             /\ limpiado \/ ~HayRepetidos(inicial, e.etiqueta_neo4j, IdCampo(e)))
            => ~HayRepetidos(neo4j, e.etiqueta_neo4j, IdCampo(e))

\* Two source rows with identity 1 met a target that already held Persona 1:
\* one node carries it afterwards.
C3_Testigo ==
    /\ Automatica
    /\ pc = "completada" /\ corrida = 1
    /\ inicial = GrafoAjeno /\ ~limpiado
    /\ Len(postgres["usuarios"]) >= 2
    /\ IdsDevueltos(EntPersona) = {1}
    /\ Cardinality(NodosCon(neo4j, "Persona", "id_sql", 1)) = 1

\* An endpoint of the record has no node of its label and identity value in g.
Huerfano(g, consulta, registro) ==
    \/ ~\E n \in DOMAIN g.nodos :
            /\ g.nodos[n].etiqueta = consulta.nodo_origen
            /\ g.nodos[n].props[consulta.campo_id_origen] = registro.id_origen
    \/ ~\E n \in DOMAIN g.nodos :
            /\ g.nodos[n].etiqueta = consulta.nodo_destino
            /\ g.nodos[n].props[consulta.campo_id_destino] = registro.id_destino

\* C4: executing the relationship statement for a record one of whose
\* endpoints has no node creates no edge and no node and raises no error:
\* the transaction stays open, its graph unchanged, at the next record.
C4_HuerfanoSinEfecto ==
    [][(CrearRelaciones /\ Huerfano(tx.grafo, tx.consulta, tx.registros[tx.k]))
        => /\ pc' = "crear_relaciones"
           /\ tx'.abierta
           /\ tx'.grafo = tx.grafo
           /\ tx'.k = tx.k + 1
           /\ neo4j' = neo4j]_vars

\* The record just executed names an existing origin and a missing destination.
C4_Testigo ==
    /\ pc = "crear_relaciones" /\ tx.k > 1
    /\ Huerfano(tx.grafo, tx.consulta, tx.registros[tx.k - 1])
    /\ Coincidencias(tx.grafo, tx.consulta.nodo_origen,
                     tx.consulta.campo_id_origen,
                     tx.registros[tx.k - 1].id_origen) # {}
    /\ tx.grafo = neo4j
    /\ neo4j.aristas = {}

\* The records of a committed relationship batch with a missing endpoint.
Omitidos(lote) ==
    {k \in DOMAIN lote.registros : Huerfano(neo4j, lote.consulta, lote.registros[k])}

\* C5: for every relationship batch the number printed as created leaves out
\* the records whose origin or destination node was missing, and their
\* number is printed as skipped.
C5_OmitidosContados ==
    \A i \in DOMAIN lotes :
        lotes[i].consulta.clase = "relaciones" =>
            /\ <<"relaciones_creadas", lotes[i].consulta.tipo,
                 Len(lotes[i].registros) - Cardinality(Omitidos(lotes[i]))>>
                    \in Rango(salida)
            /\ Omitidos(lotes[i]) # {} =>
                 <<"relaciones_omitidas", lotes[i].consulta.tipo,
                   Cardinality(Omitidos(lotes[i]))>> \in Rango(salida)

\* The rows of the entity whose batch is being written.
FilasEnCurso == postgres[entidades[entidad_i].consulta_sql]
MapeoEnCurso == entidades[entidad_i].mapeo_campos

\* The properties the field map gives a row: the i-th mapped property holds
\* the i-th column, nothing else is set.
PropsDeFila(mapeo_campos, fila) ==
    [p \in Propiedades |->
        IF \E i \in DOMAIN mapeo_campos : mapeo_campos[i][2] = p
        THEN fila[CHOOSE i \in DOMAIN mapeo_campos : mapeo_campos[i][2] = p]
        ELSE NULL]

\* The last row of filas with the identity value of row k.
UltimaCon(filas, k) ==
    filas[CHOOSE j \in DOMAIN filas :
            /\ filas[j][1] = filas[k][1]
            /\ \A h \in DOMAIN filas : filas[h][1] = filas[k][1] => h <= j]

\* C6 (as stated): once an entity's batch is committed, for every source row
\* the nodes with the row's identity value have exactly the mapped
\* properties, holding the row's columns.
C6_FidelidadExacta ==
    [][ConfirmarNodos =>
        \A k \in DOMAIN FilasEnCurso :
            LET ns == NodosCon(neo4j', tx.consulta.etiqueta, tx.consulta.id_campo,
                               FilasEnCurso[k][1])
            IN /\ ns # {}
               /\ \A n \in ns :
                    neo4j'.nodos[n].props = PropsDeFila(MapeoEnCurso, FilasEnCurso[k])]_vars

\* C6 (amended): once an entity's batch is committed, for every source row
\* the nodes with the row's identity value hold, in the i-th mapped property,
\* the i-th column of the last row of the batch with that identity value
\* (NULL: the property is absent), and every property the field map does not
\* name is as it was before the batch (absent on a node the batch created).
C6_FidelidadMapeada ==
    [][ConfirmarNodos =>
        \A k \in DOMAIN FilasEnCurso :
            LET ns == NodosCon(neo4j', tx.consulta.etiqueta, tx.consulta.id_campo,
                               FilasEnCurso[k][1])
                ultima == PropsDeFila(MapeoEnCurso, UltimaCon(FilasEnCurso, k))
            IN /\ ns # {}
               /\ \A n \in ns : \A p \in Propiedades :
                    neo4j'.nodos[n].props[p] =
                        IF \E i \in DOMAIN MapeoEnCurso : MapeoEnCurso[i][2] = p
                        THEN ultima[p]
                        ELSE IF n \in DOMAIN neo4j.nodos
                             THEN neo4j.nodos[n].props[p]
                             ELSE NULL]_vars

\* Two rows for identity 1 with different nombre were committed over the
\* Persona 1 the target already held: the later row's nombre, the old extra.
C6_Testigo ==
    /\ pc = "relacion" /\ corrida = 1 /\ Len(lotes) = 1
    /\ inicial = GrafoAjeno /\ ~limpiado
    /\ postgres["usuarios"] = << <<1, NULL>>, <<1, 1>> >>
    /\ neo4j.nodos[2].props =
          [SinPropiedades EXCEPT !["id_sql"] = 1, !["nombre"] = 1, !["extra"] = 9]

\* The names of the entities (relationships) declared after the one named.
DeclaradasTras(nombre) ==
    {entidades[k].nombre : k \in {k \in DOMAIN entidades :
        \E a \in 1..(k - 1) : entidades[a].nombre = nombre}}
    \cup
    {relaciones[k].nombre : k \in {k \in DOMAIN relaciones :
        \E a \in 1..(k - 1) : relaciones[a].nombre = nombre}}

\* C7: when the run has ended and the source query of an entity (or of a
\* relationship) failed in it, every entity (relationship) declared after
\* that one was read as well.
C7_AislamientoDeLectura ==
    \A k \in DOMAIN salida :
        (Automatica /\ Terminada /\ salida[k][1] = "error_sql") =>
            DeclaradasTras(salida[k][2]) \subseteq intentos

\* C8: in a run of the migrator the target always holds whole batches: what
\* the run found (nothing, once it cleared the target) with every committed
\* batch executed in full,
\* each batch being the full row set of its query; a batch that failed has
\* left nothing.
C8_LotesAtomicos ==
    programa = "consola" =>
        /\ neo4j = LET base == IF limpiado THEN GrafoVacio ELSE inicial
                   IN  EjecutarLotes(base, lotes)
        /\ \A i \in DOMAIN lotes :
              \E u \in Unidades :
                  /\ u.nombre = lotes[i].nombre
                  /\ Len(lotes[i].registros) = Len(postgres[u.consulta_sql])

\* A batch failed after one of its statements had been executed, after an
\* earlier batch had been committed.
C8_Testigo ==
    /\ pc = "excepcion" /\ deshechos >= 1 /\ lotes # <<>>
    /\ neo4j # inicial

\* C9: when a write transaction has failed in a run that has ended, the run
\* has read every declared entity and relationship and has gone through
\* indexing and reporting.
C9_FalloDeEscrituraNoFatal ==
    (Terminada /\ <<"error_escritura">> \in Rango(salida)) =>
        /\ pc = "completada"
        /\ \A u \in Unidades : u.nombre \in intentos

\* C10: once a run configured to clear has passed its clearing (the clearing
\* did not fail), the target holds nothing but what the batches this run
\* committed produce from an empty graph, whatever it held before; and until
\* the clearing is done the run has written nothing: the clearing came before
\* every write.
C10_LimpiezaPrimero ==
    /\ (/\ <<"error_limpieza">> \notin Rango(salida)
        /\ pc = "abortada" => limpiado
        /\ \/ borrar_al_iniciar /\ pc \notin {"inicio", "salida"}
           \/ Automatica /\ opciones.limpiar_neo4j_antes
                 /\ pc \notin {"inicio", "salida", "migrar", "limpiar"})
       => neo4j = EjecutarLotes(GrafoVacio, lotes)
    /\ ((borrar_al_iniciar \/ (Automatica /\ opciones.limpiar_neo4j_antes))
            /\ ~limpiado)
       => (lotes = <<>> /\ ~tx.abierta /\ neo4j = inicial)

\* A completed run with limpiar_neo4j_antes over a target that held other data.
C10_Testigo ==
    /\ Automatica
    /\ pc = "completada" /\ corrida = 1
    /\ opciones.limpiar_neo4j_antes
    /\ inicial = GrafoAjeno
    /\ neo4j.nodos # <<>>
    /\ \A n \in DOMAIN neo4j.nodos : neo4j.nodos[n].etiqueta = "Persona"
    /\ \A a \in neo4j.aristas : a.tipo = "AMIGO_DE"
    /\ neo4j.aristas # {}

\* Every nodo_origen and nodo_destino is the label of a declared entity.
EtiquetasResueltas(m) ==
    \A r \in Rango(m.relaciones) :
        {r.nodo_origen, r.nodo_destino}
            \subseteq {e.etiqueta_neo4j : e \in Rango(m.entidades)}

\* C11: with a mapping in which some relationship names a label no entity
\* declares, the run never executes a source query and never writes:
\* nothing is read, no write transaction is opened, no batch is committed.
C11_EtiquetasSinResolverRechazadas ==
    (Automatica /\ ~EtiquetasResueltas(MAPEO_MIGRACION)) =>
        /\ intentos = {}
        /\ ~tx.abierta
        /\ lotes = <<>>
        /\ neo4j = inicial

\* C12: with a mapping in which some entity has an empty mapeo_campos, no
\* entity is written: no write transaction is opened, no batch is committed.
C12_MapaVacioRechazado ==
    (Automatica /\ \E e \in Rango(entidades) : e.mapeo_campos = <<>>) =>
        /\ ~tx.abierta
        /\ lotes = <<>>

\* C13: a process that has ended has exit code 0 exactly when its run
\* completed, and a non-zero exit code when the run failed (at connection,
\* at clearing or during the migration).
C13_CodigoDeSalida ==
    proceso = "terminado" => (codigo_salida = 0 <=> pc = "completada")

\* C14: when the process has ended, no connection it acquired is still open.
C14_ConexionesLiberadas ==
    proceso = "terminado" =>
        /\ conexion_postgres # "abierta"
        /\ driver_neo4j # "abierta"

\* C18: once the delete-all of a run configured to clear has failed, the run
\* has failed, and it has executed no source query, opened no write
\* transaction and changed nothing in the target.
C18_FalloDeLimpiezaFatal ==
    <<"error_limpieza">> \in Rango(salida) =>
        /\ pc \in {"excepcion", "salida"}
        /\ intentos = {}
        /\ ~tx.abierta
        /\ lotes = <<>>
        /\ neo4j = inicial

\* The clearing of the mapping's options failed in a run that had rows to
\* migrate and a target with content: the process ended, the target as it was.
C18_Testigo ==
    /\ Automatica
    /\ proceso = "terminado" /\ pc = "excepcion"
    /\ opciones.limpiar_neo4j_antes
    /\ <<"error_limpieza">> \in Rango(salida)
    /\ postgres["usuarios"] # <<>>
    /\ neo4j = GrafoAjeno

\* C19: when either store accepts no connection, the run executes no source
\* query and issues no write, and it does not complete.
C19_FalloDeConexionFatal ==
    (~disponible.postgres \/ ~disponible.neo4j) =>
        /\ intentos = {}
        /\ ~tx.abierta
        /\ lotes = <<>>
        /\ pc # "completada"

\* C15: mode selection. The run is the mapping-driven one whenever the mapping
\* file existed and was loaded, whatever it holds, and the fixed four-phase
\* one exactly when the file was absent.
C15_SeleccionDeModo ==
    \A k \in DOMAIN salida :
        salida[k][1] = "modo" =>
            (salida[k][2] = "automatica" <=> MAPEO_MIGRACION # Ninguno)

\* No two edges of one type join one ordered pair of nodes.
SinParalelas(g) ==
    \A e1, e2 \in g.aristas :
        (e1.tipo = e2.tipo /\ e1.de = e2.de /\ e1.a = e2.a) => e1 = e2

TextoSegunMapeo(nombre) ==
    IF ~Automatica
    THEN (CHOOSE f \in Rango(FasesManuales) : f.nombre = nombre).consulta
    ELSE IF \E e \in Rango(entidades) : e.nombre = nombre
    THEN LET e == CHOOSE e \in Rango(entidades) : e.nombre = nombre
         IN [clase |-> "nodos",
             etiqueta |-> e.etiqueta_neo4j,
             id_campo |-> e.mapeo_campos[1][2],
             campos_set |-> [k \in DOMAIN e.mapeo_campos |-> e.mapeo_campos[k][2]]]
    ELSE LET r == CHOOSE r \in Rango(relaciones) : r.nombre = nombre
             primera(etiqueta) ==
                 entidades[CHOOSE i \in DOMAIN entidades :
                     /\ entidades[i].etiqueta_neo4j = etiqueta
                     /\ \A j \in 1..(i - 1) : entidades[j].etiqueta_neo4j # etiqueta]
         IN [clase |-> "relaciones",
             nodo_origen |-> r.nodo_origen,
             campo_id_origen |-> primera(r.nodo_origen).mapeo_campos[1][2],
             nodo_destino |-> r.nodo_destino,
             campo_id_destino |-> primera(r.nodo_destino).mapeo_campos[1][2],
             tipo |-> r.tipo_relacion]

\* The parameter names a statement text refers to.
ParametrosDe(consulta) ==
    IF consulta.clase = "nodos"
    THEN {consulta.id_campo} \cup Rango(consulta.campos_set)
    ELSE {"id_origen", "id_destino"}

\* The text and the records are those of a statement whose text comes from the
\* mapping and whose row values are all parameters.
Parametrizada(nombre, consulta, registros) ==
    /\ consulta = TextoSegunMapeo(nombre)
    /\ \A k \in DOMAIN registros : DOMAIN registros[k] = ParametrosDe(consulta)

\* C17: statement text is independent of row data. The text of the statement
\* of every open and of every committed transaction is the one the mapping
\* determines for that entity or relationship, whatever rows the source
\* returned; the row values are in the parameter records only, one parameter
\* for each name the text refers to.
C17_TextoIndependienteDeFilas ==
    /\ tx.abierta => Parametrizada(tx.nombre, tx.consulta, tx.registros)
    /\ \A i \in DOMAIN lotes :
          Parametrizada(lotes[i].nombre, lotes[i].consulta, lotes[i].registros)

\* A node statement generated from the mapping has run for a row and is about
\* to run, with the same text, for a row of other values.
C17_Testigo ==
    /\ Automatica
    /\ pc = "crear_nodos" /\ tx.abierta
    /\ tx.k = 2 /\ Len(tx.registros) >= 2
    /\ tx.registros[1] # tx.registros[2]
    /\ tx.registros[2].id_sql # NULL

\* The run has read, or is writing, or has written, a relationship.
RelacionEmpezada ==
    \/ pc \in {"relacion", "crear_relaciones"}
    \/ \E r \in Rango(relaciones) : r.nombre \in intentos
    \/ tx.abierta /\ tx.consulta.clase = "relaciones"
    \/ \E i \in DOMAIN lotes : lotes[i].consulta.clase = "relaciones"

\* C20: relationships only after all entities. In a mapping-driven run no
\* relationship query is executed and no relationship batch is written until
\* every declared entity has been attempted (written, skipped for having no
\* rows, or failed).
C20_RelacionesTrasEntidades ==
    (Automatica /\ RelacionEmpezada) =>
        \A e \in Rango(entidades) : e.nombre \in intentos

\* A relationship batch is being written after one entity was written and the
\* other was skipped for having no rows.
C20_Testigo ==
    /\ Automatica
    /\ Len(entidades) = 2
    /\ pc = "crear_relaciones" /\ tx.abierta /\ tx.k > 1
    /\ \E i \in DOMAIN lotes : lotes[i].nombre = entidades[1].nombre
    /\ <<"sin_datos", entidades[2].nombre>> \in Rango(salida)

\* The phase a position of the run belongs to, in the order of the run:
\* clearing, entities, relationships, indexing, reporting, ended.
Etapa(p) ==
    CASE p \in {"inicio", "migrar"} -> 0
      [] p = "limpiar" -> 1
      [] p \in {"entidad", "crear_nodos"} -> 2
      [] p \in {"relacion", "crear_relaciones"} -> 3
      [] p = "indices" -> 4
      [] p = "estadisticas" -> 5
      [] OTHER -> 6

\* C21: strict sequential order. Within a mapping-driven run the phases are
\* entered in the order clearing, entities, relationships, indexing,
\* reporting and none is entered again; the position in the entity list moves
\* only in the entity phase and that in the relationship list only in the
\* relationship phase, each forward by one; the unit read by a step is the
\* one at the current position; and a write transaction is opened only when
\* none is open.
C21_OrdenSecuencial ==
    [][ (Automatica /\ corrida' = corrida) =>
          /\ Etapa(pc') >= Etapa(pc)
          /\ entidad_i' \in {entidad_i, entidad_i + 1}
          /\ entidad_i' # entidad_i => Etapa(pc) = 2
          /\ relacion_i' \in {relacion_i, relacion_i + 1}
          /\ relacion_i' # relacion_i => Etapa(pc) = 3
          /\ \A n \in intentos' \ intentos :
                \/ pc = "entidad" /\ n = entidades[entidad_i].nombre
                \/ pc = "relacion" /\ n = relaciones[relacion_i].nombre
          /\ (tx'.abierta /\ tx' # tx /\ (tx.abierta => tx'.nombre # tx.nombre))
                => ~tx.abierta
          /\ Len(lotes') > Len(lotes) =>
                /\ tx.abierta /\ ~tx'.abierta
                /\ lotes' = Append(lotes, Lote(tx.nombre, tx.consulta, tx.registros))
      ]_vars

\* A run that cleared, wrote an entity and a relationship, indexed and
\* reported has returned.
C21_Testigo ==
    /\ Automatica
    /\ pc = "completada" /\ limpiado /\ opciones.limpiar_neo4j_antes
    /\ opciones.crear_indices /\ indices # {}
    /\ \E i, j \in DOMAIN lotes :
          /\ i < j
          /\ lotes[i].consulta.clase = "nodos"
          /\ lotes[j].consulta.clase = "relaciones"
    /\ \E k \in DOMAIN salida : salida[k][1] = "total_relaciones"

\* The unit the run is about to read returned no rows.
SinFilas ==
    \/ pc = "entidad" /\ postgres[entidades[entidad_i].consulta_sql] = <<>>
    \/ pc = "relacion" /\ postgres[relaciones[relacion_i].consulta_sql] = <<>>

\* C22: zero rows is a skip, not an error. The pass of the entity loop or of
\* the relationship loop for a unit whose query returned no rows opens no
\* write transaction and generates no statement, leaves the target, its
\* indexes and the committed batches as they were, and goes on to the next
\* unit (or, after the last, to what follows the loop) without raising.
C22_SinFilasSeOmite ==
    [][ (Automatica /\ SinFilas /\ (MigrarEntidad \/ MigrarRelacion)) =>
          /\ ~tx'.abierta /\ tx' = tx
          /\ neo4j' = neo4j /\ indices' = indices /\ lotes' = lotes
          /\ pc' # "excepcion"
          /\ pc = "entidad" =>
                /\ entidad_i' = entidad_i + 1
                /\ pc' = IF entidad_i' <= Len(entidades) THEN "entidad"
                         ELSE IF relaciones # <<>> THEN "relacion" ELSE "indices"
          /\ pc = "relacion" =>
                /\ relacion_i' = relacion_i + 1
                /\ pc' = IF relacion_i' <= Len(relaciones) THEN "relacion"
                         ELSE "indices"
      ]_vars

\* The first entity was skipped for having no rows, and the run is writing
\* the batch of the second.
C22_Testigo ==
    /\ Automatica
    /\ Len(entidades) = 2
    /\ postgres[entidades[1].consulta_sql] = <<>>
    /\ <<"sin_datos", entidades[1].nombre>> \in Rango(salida)
    /\ pc = "crear_nodos" /\ tx.abierta /\ tx.k > 1
    /\ tx.nombre = entidades[2].nombre
    /\ lotes = <<>>

\* What the step printed.
Impreso == [k \in 1..(Len(salida') - Len(salida)) |-> salida'[Len(salida) + k]]

\* C23: indexing is optional and per-index non-fatal. Without crear_indices
\* the indexing step attempts nothing; with it, the step attempts one index
\* per declared entity, in declaration order, on the entity's label and
\* identity property, whether or not earlier attempts failed, and the run
\* goes on to the reporting.
C23_IndicesNoFatales ==
    [][ (Automatica /\ CrearIndices) =>
          /\ pc' = "estadisticas"
          /\ IF opciones.crear_indices
             THEN /\ Len(Impreso) = Len(entidades)
                  /\ \A e \in DOMAIN Impreso :
                        \/ Impreso[e] = <<"error_indice">>
                        \/ /\ entidades[e].mapeo_campos # <<>>
                           /\ Impreso[e] = <<"indice", entidades[e].etiqueta_neo4j,
                                             entidades[e].mapeo_campos[1][2]>>
                           /\ <<entidades[e].etiqueta_neo4j,
                                entidades[e].mapeo_campos[1][2]>> \in indices'
             ELSE Impreso = <<>> /\ indices' = indices
      ]_vars

\* C24: reporting errors are non-fatal. The reporting step prints one count
\* per declared entity label and one per declared relation type, each the
\* number the store returned or unknown when its query failed, and the run
\* returns.
C24_EstadisticasNoFatales ==
    [][ (Automatica /\ Estadisticas) =>
          /\ pc' = "completada"
          /\ Len(Impreso) = Len(entidades) + Len(relaciones)
          /\ \A e \in DOMAIN entidades :
                /\ Impreso[e][1] = "total_nodos"
                /\ Impreso[e][2] = entidades[e].etiqueta_neo4j
                /\ Impreso[e][3] \in
                      {ContarNodos(neo4j, entidades[e].etiqueta_neo4j), "desconocido"}
          /\ \A r \in DOMAIN relaciones :
                LET linea == Impreso[Len(entidades) + r]
                IN /\ linea[1] = "total_relaciones"
                   /\ linea[2] = relaciones[r].tipo_relacion
                   /\ linea[3] \in
                         {ContarAristas(neo4j, relaciones[r].tipo_relacion),
                          "desconocido"}
      ]_vars

\* Entity e's row k met, when the run started, exactly one node of e's label
\* with the row's identity value; the run left exactly one, whose mapped
\* properties hold the columns of the last row with that identity value.
Curado(e, k) ==
    LET filas == postgres[e.consulta_sql]
        v == filas[k][1]
        ns == NodosCon(neo4j, e.etiqueta_neo4j, IdCampo(e), v)
        ultima == PropsDeFila(e.mapeo_campos, UltimaCon(filas, k))
    IN Cardinality(NodosCon(inicial, e.etiqueta_neo4j, IdCampo(e), v)) = 1 =>
          /\ Cardinality(ns) = 1
          /\ \A n \in ns : \A i \in DOMAIN e.mapeo_campos :
                neo4j.nodos[n].props[e.mapeo_campos[i][2]]
                    = ultima[e.mapeo_campos[i][2]]

\* C25 (as stated): self-healing upsert. After a completed run, for every
\* entity and every identity value v of its rows for which the target held
\* one node (L, v) when the run started, whatever its property values, the
\* target holds exactly one node (L, v) and its mapped properties equal the
\* latest source values.
C25_UpsertAutocurativo ==
    (Automatica /\ pc = "completada") =>
        \A e \in Rango(entidades) :
            \A k \in DOMAIN postgres[e.consulta_sql] : Curado(e, k)

\* C25 (amended): the same for every entity whose label no other entity of
\* the mapping declares.
C25_UpsertEtiquetaPropia ==
    (Automatica /\ pc = "completada") =>
        \A e \in Rango(entidades) :
            EtiquetaPropia(e) =>
                \A k \in DOMAIN postgres[e.consulta_sql] : Curado(e, k)

\* The target held Persona 1 with a stale nombre; the run, which cleared
\* nothing, has completed and the only Persona 1 carries the source's nombre.
C25_Testigo ==
    /\ Automatica
    /\ pc = "completada" /\ ~limpiado /\ corrida = 1
    /\ MAPEO_MIGRACION = MapeoAmigos(FALSE)
    /\ inicial = GrafoAjeno
    /\ postgres["usuarios"] = << <<1, 1>> >>
    /\ NodosCon(inicial, "Persona", "id_sql", 1) = {2}
    /\ inicial.nodos[2].props.nombre = 9
    /\ NodosCon(neo4j, "Persona", "id_sql", 1) = {2}
    /\ neo4j.nodos[2].props.nombre = 1

\* The batches a run that nothing interrupts commits, in order: one for every
\* entity whose query returns rows, then one for every such relationship.
ConFilas(u) == postgres[u.consulta_sql] # <<>>

LoteDeEntidad(e) ==
    LET datos == postgres[e.consulta_sql]
    IN Lote(e.nombre, ConsultaNodos(e),
            [k \in DOMAIN datos |-> Registro(e.mapeo_campos, datos[k])])

LoteDeRelacion(r) ==
    LET datos == postgres[r.consulta_sql]
    IN Lote(r.nombre, ConsultaRelaciones(MAPEO_MIGRACION, r),
            [k \in DOMAIN datos |-> RegistroRelacion(datos[k])])

LotesCompletos ==
    LET es == SelectSeq(entidades, ConFilas)
        rs == SelectSeq(relaciones, ConFilas)
    IN [k \in DOMAIN es |-> LoteDeEntidad(es[k])]
       \o [k \in DOMAIN rs |-> LoteDeRelacion(rs[k])]

\* What a run that nothing interrupts leaves of target g.
CorridaCompleta(g) ==
    EjecutarLotes(IF borrar_al_iniciar \/ opciones.limpiar_neo4j_antes
                  THEN GrafoVacio ELSE g,
                  LotesCompletos)

\* C26 (as stated): re-convergence after abort. When the run before this one
\* was cut short (killed, or ended by an error, between batches or inside
\* one) and this run, over the same source, has completed, the target is
\* the one a single uninterrupted run leaves of the target the cut run
\* started from.
C26_Reconvergencia ==
    (Automatica /\ pc = "completada" /\ previa = "excepcion") =>
        neo4j = CorridaCompleta(anterior)

\* C26 (amended): the same for the mappings in which no two entities declare
\* the same label.
C26_ReconvergenciaEtiquetasDistintas ==
    (Automatica /\ pc = "completada" /\ previa = "excepcion"
        /\ EtiquetasDistintas(MAPEO_MIGRACION)) =>
        neo4j = CorridaCompleta(anterior)

\* The first run was cut after it had committed something; the second, over
\* a target it neither cleared nor found as the first had, has completed and
\* added what was missing.
C26_Testigo ==
    /\ Automatica /\ EtiquetasDistintas(MAPEO_MIGRACION)
    /\ ~borrar_al_iniciar /\ ~opciones.limpiar_neo4j_antes
    /\ corrida = 2 /\ previa = "excepcion" /\ pc = "completada"
    /\ anterior = GrafoVacio
    /\ inicial # anterior
    /\ neo4j # inicial
    /\ neo4j.aristas # {}

\* ---------------------------------------------------------------------- C27
\* The migrator runs, and neither its constructor nor the run clears the
\* target.
SinLimpieza ==
    /\ programa = "consola"
    /\ ~borrar_al_iniciar
    /\ Automatica => ~opciones.limpiar_neo4j_antes

\* Every node of antes is in ahora with its label and every edge of antes is
\* an edge of ahora.
ConservaNodosYAristas(antes, ahora) ==
    /\ Len(ahora.nodos) >= Len(antes.nodos)
    /\ \A n \in DOMAIN antes.nodos : ahora.nodos[n].etiqueta = antes.nodos[n].etiqueta
    /\ antes.aristas \subseteq ahora.aristas

\* The properties node n had in antes and has no more in ahora.
PropiedadesQuitadas(antes, ahora, n) ==
    {p \in Propiedades : antes.nodos[n].props[p] # NULL /\ ahora.nodos[n].props[p] = NULL}

\* Some statement of the run writes property p on the nodes of the label and
\* some row it is given holds NULL there.
AnulaLaFuente(etiqueta, p) ==
    IF Automatica
    THEN \E e \in Rango(entidades) :
            /\ e.etiqueta_neo4j = etiqueta
            /\ \E k \in DOMAIN e.mapeo_campos : e.mapeo_campos[k][2] = p
            /\ \E f \in Rango(postgres[e.consulta_sql]) :
                    Registro(e.mapeo_campos, f)[p] = NULL
    ELSE \E paso \in Rango(FasesManuales) :
            /\ paso.consulta.clase = "nodos"
            /\ paso.consulta.etiqueta = etiqueta
            /\ p \in Rango(paso.consulta.campos_set)
            /\ \E f \in Rango(postgres[paso.consulta_sql]) :
                    RegistroManual(paso.columnas, f)[p] = NULL

\* C27 (as stated): when neither limpiar_neo4j_antes nor borrar_al_iniciar is
\* set, every node and every edge the target held when the run started is
\* there in every later state of the run, and no node has lost a property.
C27_SinBorrado ==
    SinLimpieza =>
        /\ ConservaNodosYAristas(inicial, neo4j)
        /\ \A n \in DOMAIN inicial.nodos : PropiedadesQuitadas(inicial, neo4j, n) = {}

\* C27 (amended): when neither limpiar_neo4j_antes nor borrar_al_iniciar is
\* set, every node and every edge the target held when the run started is
\* there in every later state of the run, and a node has lost a property only
\* if a statement of the run writes that property on the nodes of its label
\* and a source row holds NULL in the column written.
C27_SinBorradoSalvoNulos ==
    SinLimpieza =>
        /\ ConservaNodosYAristas(inicial, neo4j)
        /\ \A n \in DOMAIN inicial.nodos :
                \A p \in PropiedadesQuitadas(inicial, neo4j, n) :
                    AnulaLaFuente(inicial.nodos[n].etiqueta, p)

\* A run that cleared nothing has completed over a target that held nodes and
\* an edge: it added a node, kept the edge and the property no statement
\* names, and removed the one property for which the source had NULL.
C27_Testigo ==
    /\ SinLimpieza /\ Automatica /\ pc = "completada"
    /\ inicial = GrafoAjeno
    /\ Len(neo4j.nodos) > Len(inicial.nodos)
    /\ PropiedadesQuitadas(inicial, neo4j, 2) = {"nombre"}
    /\ neo4j.nodos[2].props["extra"] = 9

\* ---------------------------------------------------------------------- C28
\* No entity declares the label of one of the ends of relationship r.
SinResolver(r) ==
    \/ ConfigNodo(MAPEO_MIGRACION, r.nodo_origen) = 0
    \/ ConfigNodo(MAPEO_MIGRACION, r.nodo_destino) = 0

\* Every entity whose query returned rows has its batch committed.
EntidadesConfirmadas ==
    /\ entidad_i > Len(entidades)
    /\ \A e \in Rango(entidades) :
            ConFilas(e) => \E i \in DOMAIN lotes : lotes[i].nombre = e.nombre

\* C28: label resolution happens only for non-empty relationships. When the
\* query of a relationship with an unresolvable label has been answered, the
\* relationship is skipped without any error if it returned no row; if it
\* returned rows the run fails there, writing nothing, after the batch of
\* every entity with rows was committed.
C28_ResolucionSoloConFilas ==
    [][(/\ Automatica /\ pc = "relacion" /\ pc' # "abortada"
        /\ SinResolver(relaciones[relacion_i])
        /\ Impreso # << <<"error_sql", relaciones[relacion_i].nombre>> >>)
       =>
       LET r == relaciones[relacion_i] IN
       IF postgres[r.consulta_sql] = <<>>
       THEN /\ pc' = PcTrasRelacion(relacion_i + 1)
            /\ relacion_i' = relacion_i + 1
            /\ Impreso = << <<"sin_datos", r.nombre>> >>
            /\ neo4j' = neo4j /\ tx' = tx /\ lotes' = lotes
       ELSE /\ pc' = "excepcion"
            /\ Impreso = <<>>
            /\ ~tx.abierta /\ ~tx'.abierta
            /\ neo4j' = neo4j /\ lotes' = lotes
            /\ EntidadesConfirmadas
            /\ neo4j = EjecutarLotes(inicial, lotes)]_vars

\* The run has failed on the labels of a relationship that has rows, the
\* nodes of the entity before it committed and in the target.
C28_Testigo ==
    /\ Automatica /\ pc = "excepcion"
    /\ relacion_i \in DOMAIN relaciones
    /\ SinResolver(relaciones[relacion_i])
    /\ postgres[relaciones[relacion_i].consulta_sql] # <<>>
    /\ relaciones[relacion_i].nombre \in intentos
    /\ \A k \in DOMAIN salida : salida[k][1] \notin {"error_sql", "error_escritura"}
    /\ lotes # <<>>
    /\ neo4j.nodos # <<>>
    /\ neo4j.aristas = {}

\* ---------------------------------------------------------------------- C29
\* The entities that declare the label, and the identity property of the one
\* declared first.
ConEtiqueta(etiqueta) ==
    {k \in DOMAIN entidades : entidades[k].etiqueta_neo4j = etiqueta}

CampoDelPrimero(etiqueta) ==
    IdCampo(entidades[CHOOSE k \in ConEtiqueta(etiqueta) :
                        \A h \in ConEtiqueta(etiqueta) : k <= h])

\* C29: first-match endpoint resolution. The statement of a relationship
\* batch matches each end on the identity property of the first entity, in
\* declaration order, that declares the label of that end, and every record
\* of the batch joins exactly the nodes of the two labels that hold the
\* record's identities in those properties.
C29_PrimeraCoincidencia ==
    [][(/\ Automatica /\ pc = "crear_relaciones"
        /\ tx'.abierta /\ tx'.k = tx.k + 1)
       =>
       LET r == relaciones[relacion_i]
           registro == tx.registros[tx.k]
           origenes == NodosCon(tx.grafo, r.nodo_origen,
                                CampoDelPrimero(r.nodo_origen), registro.id_origen)
           destinos == NodosCon(tx.grafo, r.nodo_destino,
                                CampoDelPrimero(r.nodo_destino), registro.id_destino)
       IN /\ tx.consulta.campo_id_origen = CampoDelPrimero(r.nodo_origen)
          /\ tx.consulta.campo_id_destino = CampoDelPrimero(r.nodo_destino)
          /\ tx'.consulta = tx.consulta
          /\ \A a \in tx'.grafo.aristas \ tx.grafo.aristas :
                a.tipo = r.tipo_relacion /\ a.de \in origenes /\ a.a \in destinos
          /\ \A o \in origenes, d \in destinos :
                \E a \in tx'.grafo.aristas :
                    a.tipo = r.tipo_relacion /\ a.de = o /\ a.a = d]_vars

\* Two entities declare the label of the origin with different identity
\* properties; a record of the batch has joined a node that holds its
\* origin identity in the property of the first and not in that of the second.
C29_Testigo ==
    /\ Automatica /\ pc = "crear_relaciones" /\ tx.abierta /\ tx.k = 2
    /\ LET r == relaciones[relacion_i]
           registro == tx.registros[1]
       IN \E k, h \in ConEtiqueta(r.nodo_origen) :
            /\ k < h
            /\ IdCampo(entidades[k]) # IdCampo(entidades[h])
            /\ \E a \in tx.grafo.aristas :
                /\ a.tipo = r.tipo_relacion
                /\ tx.grafo.nodos[a.de].props[IdCampo(entidades[k])] = registro.id_origen
                /\ tx.grafo.nodos[a.de].props[IdCampo(entidades[h])] # registro.id_origen

\* ---------------------------------------------------------------------- C30
\* The four batches of ejecutar_migracion_manual over the source.
LotesManuales ==
    [k \in DOMAIN FasesManuales |->
        LET f == FasesManuales[k]
            datos == postgres[f.consulta_sql]
        IN Lote(f.nombre, f.consulta,
                [i \in DOMAIN datos |-> RegistroManual(f.columnas, datos[i])])]

\* The graph the four-phase console migration leaves of target g when no
\* operation fails: its four write transactions, each in full.
GrafoLegado(g) == EjecutarLotes(g, LotesManuales)

\* The edges of a type between the nodes of two labels, as pairs of id_sql.
ParesDe(g, tipo) ==
    {<<g.nodos[a.de].props["id_sql"], g.nodos[a.a].props["id_sql"]>> :
        a \in {b \in g.aristas : b.tipo = tipo}}

\* C30: legacy console and GUI migrations agree on success. Over the same
\* source and from the same target, the four-phase console migration (one
\* write transaction per phase) and the GUI migration (one auto-commit
\* statement per row) that complete without a failed operation leave the
\* same graph: the target with a Persona per user and a Post per publication
\* keyed by id_sql, an AMIGO_DE edge per accepted friendship and a PUBLICO
\* edge from author to publication.
C30_ConsolaYGuiCoinciden ==
    /\ (/\ programa = "consola" /\ ~Automatica /\ ~borrar_al_iniciar
        /\ pc = "completada")
       => neo4j = GrafoLegado(inicial)
    /\ (programa = "gui" /\ pc = "gui_completada")
       => /\ neo4j = GrafoLegado(inicial)
          /\ \A f \in Rango(postgres["manual_usuarios"]) :
                NodosCon(neo4j, "Persona", "id_sql", f[1]) # {}
          /\ \A f \in Rango(postgres["manual_publicaciones"]) :
                /\ NodosCon(neo4j, "Post", "id_sql", f[1]) # {}
                /\ NodosCon(neo4j, "Persona", "id_sql", f[3]) # {}
                        => <<f[3], f[1]>> \in ParesDe(neo4j, "PUBLICO")
          /\ \A f \in Rango(postgres["manual_amistades"]) :
                (/\ NodosCon(neo4j, "Persona", "id_sql", f[1]) # {}
                 /\ NodosCon(neo4j, "Persona", "id_sql", f[2]) # {})
                        => <<f[1], f[2]>> \in ParesDe(neo4j, "AMIGO_DE")

\* The GUI migration has completed over a source with a user and a
\* publication of theirs: both nodes and the PUBLICO edge between them were
\* written row by row into an empty target.
C30_Testigo ==
    /\ programa = "gui" /\ pc = "gui_completada"
    /\ inicial = GrafoVacio
    /\ Len(neo4j.nodos) = 2
    /\ ParesDe(neo4j, "PUBLICO") # {}

====
